---------------------------- MODULE Spec2Model ----------------------------
(***************************************************************************)
(* Verification model of the multi-provider completion/search gateway:     *)
(*   src/src/core/llm_factory.py      sanitize_url, LLMFactory,            *)
(*                                    llm_complete                         *)
(*   src/src/services/search/kagi.py  KagiSearch                           *)
(*                                                                         *)
(* Python strings are modelled as sequences of one-character strings, so   *)
(* that rstrip, startswith, endswith, `in`, lower and int() are computed   *)
(* character by character as the interpreter computes them.                *)
(***************************************************************************)
EXTENDS Integers, Sequences, FiniteSets, TLC

(***************************************************************************)
(* Bounds of the model.                                                    *)
(***************************************************************************)
\* The number of fragments concatenated into a base_url given to sanitize_url.
MaxFrags == 3

\* The largest max_retries a caller of KagiSearch.search passes.
MaxRetries == 3

\* The number of entries in a model list of a provider's response.
MaxEntries == 2

\* The number of records in the data of a Kagi response body.
MaxItems == 4

(***************************************************************************)
(* Python values.                                                          *)
(***************************************************************************)
\* Python's None where a string is optional (never equal to a real string,
\* whose elements are single characters).
None == <<"None">>

\* bool(s) for an optional string: None and "" are falsy.
Truthy(s) == s # None /\ s # <<>>

(***************************************************************************)
(* str methods.                                                            *)
(***************************************************************************)
\* s.startswith(p)
StartsWith(s, p) == Len(s) >= Len(p) /\ SubSeq(s, 1, Len(p)) = p

\* s.endswith(p)
EndsWith(s, p) == Len(s) >= Len(p) /\ SubSeq(s, Len(s) - Len(p) + 1, Len(s)) = p

\* p in s
Contains(s, p) ==
    \E i \in 1..(Len(s) - Len(p) + 1) : SubSeq(s, i, i + Len(p) - 1) = p

\* s.rstrip(c)
RECURSIVE RStrip(_, _)
RStrip(s, c) ==
    IF Len(s) > 0 /\ s[Len(s)] = c THEN RStrip(SubSeq(s, 1, Len(s) - 1), c) ELSE s

\* The letters of the model's alphabet that str.lower changes.
LowerChar(c) ==
    CASE c = "A" -> "a" [] c = "C" -> "c" [] c = "D" -> "d" [] c = "E" -> "e"
      [] c = "I" -> "i" [] c = "K" -> "k" [] c = "L" -> "l" [] c = "M" -> "m"
      [] c = "O" -> "o"
      [] c = "P" -> "p" [] c = "U" -> "u"
      [] OTHER -> c

\* s.lower()
Lower(s) == [i \in 1..Len(s) |-> LowerChar(s[i])]

(***************************************************************************)
(* String literals of the source.                                          *)
(***************************************************************************)
SLASH == "/"
HTTP == <<"h", "t", "t", "p", ":", "/", "/">>
HTTPS == <<"h", "t", "t", "p", "s", ":", "/", "/">>
CHAT_COMPLETIONS ==
    <<"/", "c", "h", "a", "t", "/", "c", "o", "m", "p", "l", "e", "t", "i", "o", "n", "s">>
COMPLETIONS == <<"/", "c", "o", "m", "p", "l", "e", "t", "i", "o", "n", "s">>
MESSAGES == <<"/", "m", "e", "s", "s", "a", "g", "e", "s">>
EMBEDDINGS == <<"/", "e", "m", "b", "e", "d", "d", "i", "n", "g", "s">>
V1 == <<"/", "v", "1">>
PORT_11434 == <<":", "1", "1", "4", "3", "4">>
OLLAMA == <<"o", "l", "l", "a", "m", "a">>
OLLAMA_COM == <<"o", "l", "l", "a", "m", "a", ".", "c", "o", "m">>
ANTHROPIC == <<"a", "n", "t", "h", "r", "o", "p", "i", "c">>
CLAUDE == <<"c", "l", "a", "u", "d", "e">>
OPENAI == <<"o", "p", "e", "n", "a", "i">>
OLLAMA_CLOUD == <<"o", "l", "l", "a", "m", "a", "-", "c", "l", "o", "u", "d">>
DEEPSEEK == <<"d", "e", "e", "p", "s", "e", "e", "k">>
OPENROUTER == <<"o", "p", "e", "n", "r", "o", "u", "t", "e", "r">>
GEMINI == <<"g", "e", "m", "i", "n", "i">>

(***************************************************************************)
(* sanitize_url (llm_factory.py 169-197).                                  *)
(***************************************************************************)
\* The suffixes the for loop visits, in its order.
SanitizeSuffixes == <<CHAT_COMPLETIONS, COMPLETIONS, MESSAGES, EMBEDDINGS>>

\* One iteration of the loop body for suffix number i, then the rest of the loop.
RECURSIVE StripSuffixes(_, _)
StripSuffixes(url, i) ==
    IF i > Len(SanitizeSuffixes) THEN url
    ELSE LET suffix == SanitizeSuffixes[i]
         IN  IF EndsWith(url, suffix)
             THEN StripSuffixes(RStrip(SubSeq(url, 1, Len(url) - Len(suffix)), SLASH), i + 1)
             ELSE StripSuffixes(url, i + 1)

\* url and not url.startswith(("http://", "https://")) -> "http://" + url
EnsureScheme(url) ==
    IF url # <<>> /\ ~(StartsWith(url, HTTP) \/ StartsWith(url, HTTPS))
    THEN HTTP \o url
    ELSE url

\* ":11434" in url or ("ollama" in url.lower() and "ollama.com" not in url.lower())
LooksLikeLocalOllamaUrl(url) ==
    \/ Contains(url, PORT_11434)
    \/ (Contains(Lower(url), OLLAMA) /\ ~Contains(Lower(url), OLLAMA_COM))

\* Fault variant: /v1 is appended even to a URL that ends in /v1.
EnsureV1Always(url) ==
    IF LooksLikeLocalOllamaUrl(url) THEN RStrip(url, SLASH) \o V1 ELSE url

\* The Ollama special case: ensure the URL ends in /v1.
EnsureV1(url) ==
    IF LooksLikeLocalOllamaUrl(url) /\ ~EndsWith(url, V1)
    THEN RStrip(url, SLASH) \o V1
    ELSE url

sanitize_url(base_url, model) ==
    IF ~Truthy(base_url) THEN base_url
    ELSE EnsureV1(StripSuffixes(EnsureScheme(RStrip(base_url, SLASH)), 1))

(***************************************************************************)
(* LLMFactory.get_completion_function (llm_factory.py 62-79).              *)
(***************************************************************************)
\* The two transports the dispatch can return.
anthropic_complete == "anthropic_complete"
openai_complete_if_cache == "openai_complete_if_cache"

\* Fault variant: the binding is compared without being lower-cased.
get_completion_function_case_sensitive(binding) ==
    IF binding = ANTHROPIC \/ binding = CLAUDE THEN anthropic_complete
    ELSE openai_complete_if_cache

get_completion_function(binding) ==
    LET b == Lower(binding)
    IN  IF b = ANTHROPIC \/ b = CLAUDE THEN anthropic_complete
        ELSE IF b = OLLAMA_CLOUD THEN openai_complete_if_cache
        ELSE openai_complete_if_cache

(***************************************************************************)
(* llm_complete (llm_factory.py 200-315): the pure parts.                  *)
(***************************************************************************)
\* Fault variant: base_url is sanitized whatever the transport.
ShouldSanitizeAnyTransport(binding, base_url, complete_fn) == Truthy(base_url)

\* Line 216: whether base_url is sanitized.
ShouldSanitize(binding, base_url, complete_fn) ==
    Truthy(base_url) /\ (complete_fn = openai_complete_if_cache \/ binding \in {OPENAI, OLLAMA})

\* Lines 246-247: `if not response` turns an empty result into an error.
\* A transport outcome is [kind |-> "raise"] or [kind |-> "return", value |-> v].
\* Fault variant: an empty result is returned as it is.
PrimaryFailedOnlyRaise(out) == out.kind = "raise"

\* Fault variant: the emptiness test is inverted.
PrimaryFailedInverted(out) == out.kind = "raise" \/ Truthy(out.value)

PrimaryFailed(out) == out.kind = "raise" \/ ~Truthy(out.value)

\* The exception bound to e at line 251.
PrimaryException(out) ==
    IF out.kind = "raise" THEN "PrimaryError" ELSE "EmptyResponse"

\* Lines 255-264: whether the direct HTTP fallback is attempted.
is_openai_compatible(binding) ==
    Lower(binding) \in {OPENAI, OLLAMA, OLLAMA_CLOUD, DEEPSEEK, OPENROUTER, GEMINI}

FallbackApplies(binding, base_url) == is_openai_compatible(binding) /\ Truthy(base_url)

\* Lines 266-268: the URL the fallback POSTs to.
FallbackUrl(base_url) ==
    LET url == RStrip(base_url, SLASH)
    IN  IF EndsWith(url, CHAT_COMPLETIONS) THEN url ELSE url \o CHAT_COMPLETIONS

\* A key that a JSON object does not hold.
Absent == <<"Absent">>

\* dict.get(key, default) on a message object.
Get(msg, key, default) == IF msg[key] = Absent THEN default ELSE msg[key]

\* Python's `a or b` on optional strings.
Or(a, b) == IF Truthy(a) THEN a ELSE b

\* Fault variant: the reasoning fields are preferred to a non-empty content.
ExtractContentReasoningFirst(msg) ==
    Or(Get(msg, "reasoning_content", None),
       Or(Get(msg, "reasoning", None),
          Or(Get(msg, "thought", None), Get(msg, "content", <<>>))))

\* Lines 293-302: the content taken from choices[0].message.
ExtractContent(msg) ==
    LET content == Get(msg, "content", <<>>)
    IN  IF ~Truthy(content)
        THEN Or(Get(msg, "reasoning_content", None),
                Or(Get(msg, "reasoning", None),
                   Or(Get(msg, "thought", None), <<>>)))
        ELSE content

\* Lines 288-312: what the fallback block yields for a response. A response is
\*   [kind |-> "exception"]                      session.post raised
\*   [kind |-> "http", status |-> n, body |-> b] with b.shape one of
\*     "notjson"       resp.json() raises
\*     "null"          the body is JSON null: `"choices" in result` raises
\*     "nochoices"     an object without "choices"
\*     "emptychoices"  "choices": []
\*     "nomessage"     choices[0] is {}: message defaults to {}
\*     "nullmessage"   choices[0].message is null: msg.get raises
\*     "message"       choices[0].message is the object b.msg
\* The result is [returned |-> TRUE, value |-> content] or
\* [returned |-> FALSE, diag |-> the message printed].
EmptyMsg ==
    [content |-> Absent, reasoning_content |-> Absent, reasoning |-> Absent, thought |-> Absent]

FallbackBlock(resp) ==
    IF resp.kind = "exception" THEN [returned |-> FALSE, diag |-> "fallback_failed"]
    ELSE IF resp.status # 200 THEN [returned |-> FALSE, diag |-> "fallback_status"]
    ELSE IF resp.body.shape \in {"notjson", "null", "nullmessage"}
         THEN [returned |-> FALSE, diag |-> "fallback_failed"]
    ELSE IF resp.body.shape \in {"nochoices", "emptychoices"}
         THEN [returned |-> FALSE, diag |-> "none"]
    ELSE LET msg == IF resp.body.shape = "nomessage" THEN EmptyMsg ELSE resp.body.msg
             content == ExtractContent(msg)
         IN  IF Truthy(content) THEN [returned |-> TRUE, value |-> content]
             ELSE [returned |-> FALSE, diag |-> "none"]

\* Fault variant: the fallback's own exception escapes.
ReraisedFallbackError(e, e2) == IF e2 = "none" THEN e ELSE e2

\* Line 315: the exception that leaves llm_complete, given the primary path's
\* exception e and the exception e2 caught at line 311 ("none" when the
\* fallback raised nothing).
Reraised(e, e2) == e

(***************************************************************************)
(* KagiSearch (services/search/kagi.py): the pure parts.                   *)
(*                                                                         *)
(* A query can be thousands of characters long, so a query is held         *)
(* run-length encoded: a sequence of runs [c |-> character, n |-> count],  *)
(* n >= 1, adjacent runs of different characters.                          *)
(***************************************************************************)
\* Line 61: max_length.
max_length == 2000

\* Line 74: the default of max_retries.
DEFAULT_MAX_RETRIES == 3

IsSpace(c) == c = " "

\* len(query)
RECURSIVE RunLen(_)
RunLen(runs) == IF runs = <<>> THEN 0 ELSE Head(runs).n + RunLen(Tail(runs))

RECURSIVE LStripRuns(_)
LStripRuns(runs) ==
    IF runs # <<>> /\ IsSpace(Head(runs).c) THEN LStripRuns(Tail(runs)) ELSE runs

RECURSIVE RStripRuns(_)
RStripRuns(runs) ==
    IF runs # <<>> /\ IsSpace(runs[Len(runs)].c)
    THEN RStripRuns(SubSeq(runs, 1, Len(runs) - 1))
    ELSE runs

\* query.strip()
StripRuns(runs) == RStripRuns(LStripRuns(runs))

\* Lines 40-68. The result is [ok |-> TRUE, value |-> the sanitized query] or
\* [ok |-> FALSE, error |-> which SearchError was raised].
\* Fault variant: a query that is empty after trimming passes.
validate_query_accepting_empty(query) ==
    LET sanitized_query == StripRuns(query)
    IN  IF RunLen(sanitized_query) > max_length
        THEN [ok |-> FALSE, error |-> "query_too_long"]
        ELSE [ok |-> TRUE, value |-> sanitized_query]

\* Fault variant: the length limit is applied to the query before trimming.
validate_query_raw_length(query) ==
    LET sanitized_query == StripRuns(query)
    IN  IF sanitized_query = <<>> THEN [ok |-> FALSE, error |-> "empty_query"]
        ELSE IF RunLen(query) > max_length
             THEN [ok |-> FALSE, error |-> "query_too_long"]
        ELSE [ok |-> TRUE, value |-> sanitized_query]

validate_query(query) ==
    LET sanitized_query == StripRuns(query)
    IN  IF sanitized_query = <<>> THEN [ok |-> FALSE, error |-> "empty_query"]
        ELSE IF RunLen(sanitized_query) > max_length
             THEN [ok |-> FALSE, error |-> "query_too_long"]
        ELSE [ok |-> TRUE, value |-> sanitized_query]

\* Lines 94-96: the request parameters; limit is {} when the key is not set.
Params(sanitized_query, limit) == [q |-> sanitized_query, limit |-> limit]

\* int(s) for a header value: surrounding whitespace is dropped, one sign is
\* allowed, and at least one digit must follow. [ok |-> FALSE] is ValueError.
Digits == {"0", "1", "2", "3", "4", "5", "6", "7", "8", "9"}

DigitValue(c) ==
    CASE c = "0" -> 0 [] c = "1" -> 1 [] c = "2" -> 2 [] c = "3" -> 3 [] c = "4" -> 4
      [] c = "5" -> 5 [] c = "6" -> 6 [] c = "7" -> 7 [] c = "8" -> 8 [] c = "9" -> 9

RECURSIVE DigitsValue(_)
DigitsValue(s) ==
    IF s = <<>> THEN 0
    ELSE 10 * DigitsValue(SubSeq(s, 1, Len(s) - 1)) + DigitValue(s[Len(s)])

RECURSIVE LStrip(_, _)
LStrip(s, c) == IF Len(s) > 0 /\ s[1] = c THEN LStrip(Tail(s), c) ELSE s

\* Fault variant: a sign is not accepted.
ParseIntUnsigned(s) ==
    LET t == RStrip(LStrip(s, " "), " ")
    IN  IF t # <<>> /\ \A i \in 1..Len(t) : t[i] \in Digits
        THEN [ok |-> TRUE, val |-> DigitsValue(t)]
        ELSE [ok |-> FALSE]

ParseInt(s) ==
    LET t == RStrip(LStrip(s, " "), " ")
        signed == t # <<>> /\ t[1] \in {"+", "-"}
        body == IF signed THEN Tail(t) ELSE t
    IN  IF body # <<>> /\ \A i \in 1..Len(body) : body[i] \in Digits
        THEN [ok |-> TRUE,
              val |-> IF signed /\ t[1] = "-" THEN 0 - DigitsValue(body) ELSE DigitsValue(body)]
        ELSE [ok |-> FALSE]

\* Lines 116-124: the delay before the retry that follows attempt number `attempt`.
\* retry_after is the Retry-After header, None when the response has none.
\* Fault variant: the Retry-After header is ignored.
WaitTimeIgnoringHeader(attempt, retry_after) == 2 ^ attempt

WaitTime(attempt, retry_after) ==
    IF Truthy(retry_after) /\ ParseInt(retry_after).ok
    THEN ParseInt(retry_after).val
    ELSE 2 ^ attempt

\* Line 109: the status that is handled as rate limiting.
\* Fault variant: server errors are retried like rate limiting.
IsRateLimitedOrServerError(status) == status \in {429, 500}

IsRateLimited(status) == status = 429

\* Line 116: whether a 429 at attempt number `attempt` is retried.
\* Fault variant: the last attempt is taken for one that can be retried.
RetriesRemainOffByOne(attempt, max_retries) == attempt < max_retries

\* Fault variant: the first 429 of a call is retried whatever max_retries is.
RetriesRemainAfterFirst(attempt, max_retries) == attempt = 0 \/ attempt < max_retries - 1

RetriesRemain(attempt, max_retries) == attempt < max_retries - 1

\* Lines 134-139: the SearchError for a non-200, non-429 response. The body of
\* an error response is one of
\*   "empty"         no text at all
\*   "notjson"       text that is not JSON: response.json() raises
\*   "json_msg"      {"error": [{"msg": ...}]}
\*   "json_nomsg"    {"error": [{}]}
\*   "json_emptyerr" {"error": []}: [0] raises IndexError
\* An exception raised here is caught at line 147 and wrapped. An error is
\* [type, status, detail]: its class, the status code its message carries (0
\* when it carries none) and the text that follows.
ErrorFor(status, body) ==
    IF body \in {"notjson", "json_emptyerr"}
    THEN [type |-> "SearchError", status |-> 0, detail |-> "exception_text"]
    ELSE [type |-> "SearchError", status |-> status,
          detail |-> IF body = "json_msg" THEN "error_msg" ELSE "response_text"]

(***************************************************************************)
(* LLMFactory.fetch_models (llm_factory.py 81-165): the pure parts.        *)
(*                                                                         *)
(* A JSON value is a record tagged by t:                                   *)
(*   [t |-> "absent"]                  the key is not in the object        *)
(*   [t |-> "null"]                    null                                *)
(*   [t |-> "list", items |-> <<..>>]  a list of entries                   *)
(*   [t |-> "dict", data |-> v, models |-> v]  an object, by its two keys  *)
(*   [t |-> "notjson"]                 a body resp.json() cannot parse     *)
(* and an entry of a list is                                               *)
(*   [t |-> "dict", id |-> s, name |-> s]   s a string or Absent           *)
(*   [t |-> "str", s |-> s]                 a bare string                  *)
(* A comprehension yields [ok |-> TRUE, value |-> list] or, when an entry  *)
(* makes it raise, [ok |-> FALSE].                                         *)
(***************************************************************************)
API_TAGS == <<"/", "a", "p", "i", "/", "t", "a", "g", "s">>
MODELS == <<"/", "m", "o", "d", "e", "l", "s">>

\* s.replace(p, "")
RECURSIVE RemoveAll(_, _)
RemoveAll(s, p) ==
    IF Len(s) < Len(p) THEN s
    ELSE IF StartsWith(s, p) THEN RemoveAll(SubSeq(s, Len(p) + 1, Len(s)), p)
    ELSE <<Head(s)>> \o RemoveAll(Tail(s), p)

\* Fault variant: the binding "ollama" alone makes the target local.
is_likely_local_ollama_by_binding(binding, base_url) ==
    \/ binding = OLLAMA
    \/ (Contains(Lower(base_url), OLLAMA) /\ ~Contains(Lower(base_url), OLLAMA_COM))
    \/ Contains(base_url, PORT_11434)

\* Lines 101-105.
is_likely_local_ollama(binding, base_url) ==
    \/ /\ (binding = OLLAMA \/ Contains(Lower(base_url), OLLAMA))
       /\ ~Contains(Lower(base_url), OLLAMA_COM)
    \/ Contains(base_url, PORT_11434)

\* Lines 108 and 153.
TagsUrl(base_url) == RemoveAll(RStrip(base_url, SLASH), V1) \o API_TAGS

\* Line 119.
ModelsUrl(base_url) == RStrip(base_url, SLASH) \o MODELS

\* Line 152.
\* Fault variant: the last resort is tried on every host.
IsCloudHostAlways(base_url) == TRUE

IsCloudHost(base_url) == Contains(base_url, OLLAMA_COM)

\* str(d) for an entry that is an object.
DictRepr == <<"{", "}">>

\* [m["name"] for m in entries]
RECURSIVE NamesOf(_)
NamesOf(entries) ==
    IF entries = <<>> THEN [ok |-> TRUE, value |-> <<>>]
    ELSE LET m == Head(entries)
             rest == NamesOf(Tail(entries))
         IN  IF m.t # "dict" \/ m.name = Absent \/ ~rest.ok THEN [ok |-> FALSE]
             ELSE [ok |-> TRUE, value |-> <<m.name>> \o rest.value]

\* [m.get("id") or m.get("name") for m in entries if m.get("id") or m.get("name")]
RECURSIVE IdsOrNames(_)
IdsOrNames(entries) ==
    IF entries = <<>> THEN [ok |-> TRUE, value |-> <<>>]
    ELSE LET m == Head(entries)
             rest == IdsOrNames(Tail(entries))
         IN  IF m.t # "dict" \/ ~rest.ok THEN [ok |-> FALSE]
             ELSE LET v == Or(Get(m, "id", None), Get(m, "name", None))
                  IN  [ok |-> TRUE,
                       value |-> (IF Truthy(v) THEN <<v>> ELSE <<>>) \o rest.value]

\* [str(m) for m in entries]
StrsOf(entries) ==
    [ok |-> TRUE,
     value |-> [i \in 1..Len(entries) |->
                  IF entries[i].t = "str" THEN entries[i].s ELSE DictRepr]]

\* Lines 132-139 and 142-149: a list is read by the type of its first entry.
ListIds(entries) ==
    IF entries # <<>> /\ entries[1].t = "dict" THEN IdsOrNames(entries) ELSE StrsOf(entries)

\* A response is [kind |-> "exception"] (session.get raised) or
\* [kind |-> "http", status |-> n, body |-> a JSON value].
\* Lines 109-116, strategy 1: [returned |-> TRUE, value |-> names] or
\* [returned |-> FALSE] to go on to strategy 2.
\* Fault variant: an empty list of models is not returned; strategy 2 is tried.
TagsProbeSkippingEmpty(resp) ==
    IF resp.kind = "exception" \/ resp.status # 200 THEN [returned |-> FALSE]
    ELSE IF resp.body.t # "dict" \/ resp.body.models.t = "absent" THEN [returned |-> FALSE]
    ELSE IF resp.body.models.t # "list" THEN [returned |-> FALSE]
    ELSE LET names == NamesOf(resp.body.models.items)
         IN  IF names.ok /\ names.value # <<>> THEN [returned |-> TRUE, value |-> names.value]
             ELSE [returned |-> FALSE]

TagsProbe(resp) ==
    IF resp.kind = "exception" \/ resp.status # 200 THEN [returned |-> FALSE]
    ELSE IF resp.body.t # "dict" \/ resp.body.models.t = "absent" THEN [returned |-> FALSE]
    ELSE IF resp.body.models.t # "list" THEN [returned |-> FALSE]
    ELSE LET names == NamesOf(resp.body.models.items)
         IN  IF names.ok THEN [returned |-> TRUE, value |-> names.value]
             ELSE [returned |-> FALSE]

\* Lines 120-149, strategy 2: [next |-> "return", value |-> ids],
\* [next |-> "raise"] for an exception that reaches line 163, or
\* [next |-> "fallthrough"] to go on to line 151.
ModelsProbe(resp) ==
    IF resp.kind = "exception" THEN [next |-> "raise"]
    ELSE IF resp.status # 200 THEN [next |-> "fallthrough"]
    ELSE IF resp.body.t \in {"notjson", "null"} THEN [next |-> "raise"]
    ELSE LET data == resp.body
             ids == IF data.t = "list" THEN ListIds(data.items)
                    ELSE IF data.data.t = "list" THEN IdsOrNames(data.data.items)
                    ELSE IF data.models.t = "list" THEN ListIds(data.models.items)
                    ELSE [ok |-> TRUE, value |-> None]
         IN  IF ~ids.ok THEN [next |-> "raise"]
             ELSE IF ids.value = None THEN [next |-> "fallthrough"]
             ELSE [next |-> "return", value |-> ids.value]

\* Lines 163-165: how the call ends when an exception reaches the outer except.
\* Fault variant: the outer except lets the exception through.
CaughtOutcomeReraised == [kind |-> "raise"]

CaughtOutcome == [kind |-> "return", value |-> <<>>]

\* Lines 154-162, the last resort: the list fetch_models returns.
CloudTagsProbe(resp) ==
    IF resp.kind = "exception" \/ resp.status # 200 THEN <<>>
    ELSE IF resp.body.t # "dict" THEN <<>>
    ELSE IF resp.body.models.t = "absent" THEN <<>>
    ELSE IF resp.body.models.t # "list" THEN <<>>
    ELSE LET names == NamesOf(resp.body.models.items)
         IN  IF names.ok THEN names.value ELSE <<>>

(***************************************************************************)
(* State.                                                                  *)
(***************************************************************************)
VARIABLES
    san_pc,     \* sanitize_url driver: "idle", "input", "once", "twice"
    san_in,     \* the base_url given
    san_model,  \* the model argument given
    san_out,    \* sanitize_url(san_in, san_model)
    san_out2,   \* sanitize_url(san_out, san_model)
    llm_pc,         \* llm_complete: "idle", "start", "primary", "fallback", "done"
    llm_binding,    \* argument binding
    llm_arg_url,    \* argument base_url as the caller gave it
    llm_base_url,   \* local base_url (reassigned at line 218)
    llm_fn,         \* complete_fn, "unset" before line 213
    llm_primary,    \* every outcome of the primary transport, in order
    llm_posts,      \* the URL of every fallback POST, in order
    llm_resp,       \* every fallback response, in order
    llm_diag,       \* the diagnostic messages printed, in order
    llm_open,       \* the number of aiohttp sessions the fallback holds open
    llm_outcome,    \* how the call ended
    kg_pc,          \* KagiSearch.search: "idle", "start", "request", "sleep", "done"
    kg_query,       \* argument query
    kg_limit,       \* argument limit: {} for None, {n} for the number n
    kg_max_retries, \* argument max_retries
    kg_attempt,     \* the loop variable attempt
    kg_requests,    \* the params of every GET issued, in order
    kg_responses,   \* every response received, in order
    kg_sleeps,      \* the delay given to every asyncio.sleep, in order
    kg_open,        \* the number of httpx clients open
    kg_outcome,     \* how the call ended
    fm_pc,          \* fetch_models: "idle", "start", "tags", "models", "cloud_tags", "done"
    fm_binding,     \* argument binding
    fm_arg_url,     \* argument base_url
    fm_base_url,    \* local base_url (reassigned at line 87)
    fm_probes,      \* the URL of every GET issued, in order
    fm_resps,       \* every response received, in order
    fm_diag,        \* the diagnostic messages printed, in order
    fm_open,        \* the number of aiohttp sessions open
    fm_outcome,     \* how the call ended
    an_pc,          \* anthropic_complete: "idle", "start", "post", "done"
    an_api_key,     \* argument api_key
    an_env_key,     \* the environment's ANTHROPIC_API_KEY, None when unset
    an_base_url,    \* argument base_url
    an_posts,       \* every POST issued, in order: [url, key]
    an_resp,        \* every response received, in order
    an_open,        \* the number of aiohttp sessions open
    an_outcome,     \* how the call ended
    bd_pc,          \* BaiduAISearch.search: "idle", "start", "post", "done"
    bd_query,       \* argument query
    bd_recency,     \* argument search_recency_filter
    bd_posts,       \* the payload of every POST issued, in order
    bd_resp,        \* every response received, in order
    bd_open,        \* the number of httpx clients open
    bd_outcome,     \* how the call ended
    ws_pc,          \* the search tool: "idle", "start", "kagi", "baidu", "done"
    ws_entry,       \* the function called: "web_search" or "_search_with_kagi"
    ws_provider,    \* the environment's SEARCH_PROVIDER, None when unset
    ws_kagi_key,    \* the environment's KAGI_API_KEY, None when unset
    ws_baidu_key,   \* the environment's BAIDU_API_KEY, None when unset
    ws_output_dir,  \* argument output_dir
    ws_outcome,     \* how the call ended
    std_pc,         \* standardization of a Kagi response: "idle", "input", "done"
    std_response,   \* the parsed body client.search returned
    std_result,     \* the standardized result built from it
    cc_calls,       \* concurrent calls: the locals of every call in flight
    cc_instance     \* the KagiSearch instance the concurrent searches share

sanVars == <<san_pc, san_in, san_model, san_out, san_out2>>
llmVars == <<llm_pc, llm_binding, llm_arg_url, llm_base_url, llm_fn, llm_primary,
             llm_posts, llm_resp, llm_diag, llm_open, llm_outcome>>
kgVars == <<kg_pc, kg_query, kg_limit, kg_max_retries, kg_attempt, kg_requests,
            kg_responses, kg_sleeps, kg_open, kg_outcome>>
fmVars == <<fm_pc, fm_binding, fm_arg_url, fm_base_url, fm_probes, fm_resps, fm_diag,
            fm_open, fm_outcome>>
anVars == <<an_pc, an_api_key, an_env_key, an_base_url, an_posts, an_resp, an_open,
            an_outcome>>
bdVars == <<bd_pc, bd_query, bd_recency, bd_posts, bd_resp, bd_open, bd_outcome>>
wsVars == <<ws_pc, ws_entry, ws_provider, ws_kagi_key, ws_baidu_key, ws_output_dir,
            ws_outcome>>
stdVars == <<std_pc, std_response, std_result>>
ccVars == <<cc_calls, cc_instance>>
moreVars == <<anVars, bdVars, wsVars, stdVars, ccVars>>
vars == <<sanVars, llmVars, kgVars, fmVars, moreVars>>

(***************************************************************************)
(* Inputs of sanitize_url: every concatenation of at most MaxFrags         *)
(* fragments, plus None.                                                   *)
(***************************************************************************)
UrlFragments ==
    { <<"/">>, HTTP, HTTPS, <<"h">>, PORT_11434, OLLAMA, <<"O">>, <<".", "c", "o", "m">>,
      V1, CHAT_COMPLETIONS, COMPLETIONS, MESSAGES, EMBEDDINGS }

RECURSIVE FragStrings(_)
FragStrings(n) ==
    IF n = 0 THEN {<<>>}
    ELSE LET prev == FragStrings(n - 1)
         IN  prev \cup {p \o f : p \in prev, f \in UrlFragments}

\* The URLs of test_sanitize_url, and the example URL of the fallback scenario.
GROQ_URL ==
    HTTPS \o <<"a", "p", "i", ".", "g", "r", "o", "q", ".", "c", "o", "m",
              "/", "o", "p", "e", "n", "a", "i", "/", "v", "1">>
LOCALHOST_11434 == <<"l", "o", "c", "a", "l", "h", "o", "s", "t">> \o PORT_11434
EXAMPLE_V1 ==
    HTTPS \o <<"a", "p", "i", ".", "e", "x", "a", "m", "p", "l", "e", ".", "c", "o", "m">> \o V1

SanitizeExamples ==
    { LOCALHOST_11434, HTTP \o LOCALHOST_11434 \o V1, EXAMPLE_V1 \o CHAT_COMPLETIONS,
      GROQ_URL }

SanitizeInputs == FragStrings(MaxFrags) \cup {None} \cup SanitizeExamples

SanIdle ==
    /\ san_pc = "idle"
    /\ san_in = None
    /\ san_model = <<>>
    /\ san_out = None
    /\ san_out2 = None

LlmIdle ==
    /\ llm_pc = "idle"
    /\ llm_binding = <<>>
    /\ llm_arg_url = None
    /\ llm_base_url = None
    /\ llm_fn = "unset"
    /\ llm_primary = <<>>
    /\ llm_posts = <<>>
    /\ llm_resp = <<>>
    /\ llm_diag = <<>>
    /\ llm_open = 0
    /\ llm_outcome = [kind |-> "none"]

KgIdle ==
    /\ kg_pc = "idle"
    /\ kg_query = <<>>
    /\ kg_limit = {}
    /\ kg_max_retries = 0
    /\ kg_attempt = 0
    /\ kg_requests = <<>>
    /\ kg_responses = <<>>
    /\ kg_sleeps = <<>>
    /\ kg_open = 0
    /\ kg_outcome = [kind |-> "none"]

FmIdle ==
    /\ fm_pc = "idle"
    /\ fm_binding = <<>>
    /\ fm_arg_url = <<>>
    /\ fm_base_url = <<>>
    /\ fm_probes = <<>>
    /\ fm_resps = <<>>
    /\ fm_diag = <<>>
    /\ fm_open = 0
    /\ fm_outcome = [kind |-> "none"]

AnIdle ==
    /\ an_pc = "idle"
    /\ an_api_key = None
    /\ an_env_key = None
    /\ an_base_url = None
    /\ an_posts = <<>>
    /\ an_resp = <<>>
    /\ an_open = 0
    /\ an_outcome = [kind |-> "none"]

BdIdle ==
    /\ bd_pc = "idle"
    /\ bd_query = <<>>
    /\ bd_recency = None
    /\ bd_posts = <<>>
    /\ bd_resp = <<>>
    /\ bd_open = 0
    /\ bd_outcome = [kind |-> "none"]

WsIdle ==
    /\ ws_pc = "idle"
    /\ ws_entry = "none"
    /\ ws_provider = None
    /\ ws_kagi_key = None
    /\ ws_baidu_key = None
    /\ ws_output_dir = None
    /\ ws_outcome = [kind |-> "none"]

StdIdle ==
    /\ std_pc = "idle"
    /\ std_response = [t |-> "null"]
    /\ std_result = [kind |-> "none"]

CcIdle ==
    /\ cc_calls = <<>>
    /\ cc_instance = <<>>

(***************************************************************************)
(* sanitize_url applied once and twice.                                    *)
(***************************************************************************)
InitSanitize ==
    /\ san_pc = "input"
    /\ san_in \in SanitizeInputs
    /\ san_model \in {<<>>, <<"m">>}
    /\ san_out = None
    /\ san_out2 = None
    /\ LlmIdle
    /\ KgIdle
    /\ FmIdle
    /\ AnIdle
    /\ BdIdle
    /\ WsIdle
    /\ StdIdle
    /\ CcIdle

\* A caller normalizes a base_url.
SanitizeCall ==
    /\ san_pc = "input"
    /\ san_out' = sanitize_url(san_in, san_model)
    /\ san_pc' = "once"
    /\ UNCHANGED <<san_in, san_model, san_out2, llmVars, kgVars, fmVars, moreVars>>

\* The caller normalizes the normalized value again.
SanitizeAgain ==
    /\ san_pc = "once"
    /\ san_out2' = sanitize_url(san_out, san_model)
    /\ san_pc' = "twice"
    /\ UNCHANGED <<san_in, san_model, san_out, llmVars, kgVars, fmVars, moreVars>>

NextSanitize == SanitizeCall \/ SanitizeAgain

SpecSanitize == InitSanitize /\ [][NextSanitize]_vars

(***************************************************************************)
(* llm_complete as a process: one action per stretch of code between two   *)
(* awaits.                                                                 *)
(***************************************************************************)
API_EXAMPLE == <<"a", "p", "i", ".", "e", "x", "a", "m", "p", "l", "e", ".", "c", "o", "m">>
LOCALHOST == <<"l", "o", "c", "a", "l", "h", "o", "s", "t">>

LlmBindings ==
    { OPENAI, <<"O", "p", "e", "n", "A", "I">>, OLLAMA, OLLAMA_CLOUD, DEEPSEEK, OPENROUTER,
      GEMINI, <<"g", "r", "o", "q">>,
      <<"a", "z", "u", "r", "e", "_", "o", "p", "e", "n", "a", "i">>,
      <<"m", "y", "s", "t", "e", "r", "y">>,
      ANTHROPIC, <<"A", "n", "t", "h", "r", "o", "p", "i", "c">>,
      CLAUDE, <<"C", "L", "A", "U", "D", "E">> }

LlmBaseUrls ==
    { None, <<>>, <<"/">>,
      HTTPS \o API_EXAMPLE \o V1,
      HTTPS \o API_EXAMPLE \o V1 \o CHAT_COMPLETIONS,
      HTTPS \o API_EXAMPLE \o V1 \o CHAT_COMPLETIONS \o COMPLETIONS,
      HTTPS \o API_EXAMPLE \o V1 \o CHAT_COMPLETIONS \o CHAT_COMPLETIONS \o MESSAGES,
      HTTPS \o API_EXAMPLE \o V1 \o <<"/", "/">>,
      LOCALHOST \o PORT_11434 }

\* What a transport can do: raise, or return None, "" or a non-empty string.
TransportOutcomes ==
    { [kind |-> "raise"] } \cup
    { [kind |-> "return", value |-> v] : v \in {None, <<>>, <<"4">>} }

\* The values a field of the fallback response's message can hold.
FieldValues(text) == {Absent, None, <<>>, text}

FallbackMessages ==
    [content : FieldValues(<<"4", "2">>), reasoning_content : FieldValues(<<"X">>),
     reasoning : FieldValues(<<"r">>), thought : FieldValues(<<"t">>)]

FallbackBodies ==
    { [shape |-> s, msg |-> EmptyMsg] :
        s \in {"notjson", "null", "nochoices", "emptychoices", "nomessage", "nullmessage"} }
    \cup { [shape |-> "message", msg |-> m] : m \in FallbackMessages }

FallbackResponses ==
    { [kind |-> "exception"] }
    \cup { [kind |-> "http", status |-> st, body |-> [shape |-> "notjson", msg |-> EmptyMsg]] :
             st \in {201, 401, 500} }
    \cup { [kind |-> "http", status |-> 200, body |-> b] : b \in FallbackBodies }

InitLlm ==
    /\ SanIdle
    /\ KgIdle
    /\ FmIdle
    /\ AnIdle
    /\ BdIdle
    /\ WsIdle
    /\ StdIdle
    /\ CcIdle
    /\ llm_pc = "start"
    /\ llm_binding \in LlmBindings
    /\ llm_arg_url \in LlmBaseUrls
    /\ llm_base_url = llm_arg_url
    /\ llm_fn = "unset"
    /\ llm_primary = <<>>
    /\ llm_posts = <<>>
    /\ llm_resp = <<>>
    /\ llm_diag = <<>>
    /\ llm_open = 0
    /\ llm_outcome = [kind |-> "none"]

\* Lines 213-243: dispatch, sanitize, and invoke the primary transport.
LlmCallPrimary ==
    /\ llm_pc = "start"
    /\ LET complete_fn == get_completion_function(llm_binding)
           sanitized == IF ShouldSanitize(llm_binding, llm_base_url, complete_fn)
                        THEN sanitize_url(llm_base_url, <<"m">>)
                        ELSE llm_base_url
           prints == IF ShouldSanitize(llm_binding, llm_base_url, complete_fn)
                     THEN (IF sanitized # llm_base_url THEN <<"sanitized">> ELSE <<>>)
                          \o <<"llm_call">>
                     ELSE <<>>
       IN  /\ llm_fn' = complete_fn
           /\ llm_base_url' = sanitized
           /\ llm_diag' = llm_diag \o prints
    /\ llm_pc' = "primary"
    /\ UNCHANGED <<llm_binding, llm_arg_url, llm_primary, llm_posts, llm_resp, llm_open,
                   llm_outcome,
                   sanVars, kgVars, fmVars, moreVars>>

\* Lines 245-288: the primary transport has returned or raised; validate, and
\* on failure either open a session (line 287) and issue the fallback POST,
\* or re-raise.
LlmPrimaryDone ==
    /\ llm_pc = "primary"
    /\ \E out \in TransportOutcomes :
        /\ llm_primary' = Append(llm_primary, out)
        /\ IF ~PrimaryFailed(out)
           THEN /\ llm_outcome' = [kind |-> "return", value |-> out.value]
                /\ llm_pc' = "done"
                /\ UNCHANGED <<llm_posts, llm_diag, llm_open>>
           ELSE IF FallbackApplies(llm_binding, llm_base_url)
           THEN /\ llm_posts' = Append(llm_posts, FallbackUrl(llm_base_url))
                /\ llm_diag' = Append(llm_diag, "fallback")
                /\ llm_open' = llm_open + 1
                /\ llm_pc' = "fallback"
                /\ UNCHANGED llm_outcome
           ELSE /\ llm_outcome' = [kind |-> "raise",
                                   error |-> Reraised(PrimaryException(out), "none")]
                /\ llm_pc' = "done"
                /\ UNCHANGED <<llm_posts, llm_diag, llm_open>>
    /\ UNCHANGED <<llm_binding, llm_arg_url, llm_base_url, llm_fn, llm_resp, sanVars,
                   kgVars, fmVars, moreVars>>

\* Fault variant: after a fallback that produced nothing the primary transport
\* is tried once more.
LlmFallbackDoneRetryingPrimary ==
    /\ llm_pc = "fallback"
    /\ \E resp \in FallbackResponses :
        LET r == FallbackBlock(resp)
        IN  /\ llm_resp' = Append(llm_resp, resp)
            /\ IF r.returned
               THEN /\ llm_outcome' = [kind |-> "return", value |-> r.value]
                    /\ UNCHANGED llm_diag
               ELSE /\ llm_outcome' =
                          [kind |-> "raise",
                           error |-> Reraised(PrimaryException(llm_primary[Len(llm_primary)]),
                                              IF r.diag = "fallback_failed"
                                              THEN "FallbackError" ELSE "none")]
                    /\ llm_diag' = IF r.diag = "none" THEN llm_diag
                                   ELSE Append(llm_diag, r.diag)
    /\ llm_open' = llm_open - 1
    /\ llm_pc' = IF llm_outcome'.kind = "raise" /\ Len(llm_primary) < 2
                  THEN "primary" ELSE "done"
    /\ UNCHANGED <<llm_binding, llm_arg_url, llm_base_url, llm_fn, llm_primary, llm_posts,
                   sanVars, kgVars, fmVars, moreVars>>

\* Lines 288-315: the fallback POST has answered or raised.
LlmFallbackDone ==
    /\ llm_pc = "fallback"
    /\ \E resp \in FallbackResponses :
        LET r == FallbackBlock(resp)
        IN  /\ llm_resp' = Append(llm_resp, resp)
            /\ IF r.returned
               THEN /\ llm_outcome' = [kind |-> "return", value |-> r.value]
                    /\ UNCHANGED llm_diag
               ELSE /\ llm_outcome' =
                          [kind |-> "raise",
                           error |-> Reraised(PrimaryException(llm_primary[Len(llm_primary)]),
                                              IF r.diag = "fallback_failed"
                                              THEN "FallbackError" ELSE "none")]
                    /\ llm_diag' = IF r.diag = "none" THEN llm_diag
                                   ELSE Append(llm_diag, r.diag)
    /\ llm_open' = llm_open - 1
    /\ llm_pc' = "done"
    /\ UNCHANGED <<llm_binding, llm_arg_url, llm_base_url, llm_fn, llm_primary, llm_posts,
                   sanVars, kgVars, fmVars, moreVars>>

NextLlm == LlmCallPrimary \/ LlmPrimaryDone \/ LlmFallbackDone

SpecLlm == InitLlm /\ [][NextLlm]_vars

\* The calls followed to their end under fairness: every binding, with no
\* base_url, a hosted endpoint, and a local Ollama endpoint.
InitLlmLive ==
    /\ InitLlm
    /\ llm_arg_url \in {None, HTTPS \o API_EXAMPLE \o V1, LOCALHOST \o PORT_11434}

\* Each transport invocation completes and the event loop resumes the call:
\* a step of the call that stays possible is eventually taken.
SpecLlmLive == InitLlmLive /\ [][NextLlm]_vars /\ WF_vars(NextLlm)

(***************************************************************************)
(* KagiSearch.search as a process: one action per stretch of code between  *)
(* two awaits (the GET and the backoff sleep).                             *)
(***************************************************************************)
\* A query: lead spaces, then core letters, then trail spaces.
MakeQuery(lead, core, trail) ==
    (IF lead > 0 THEN <<[c |-> " ", n |-> lead]>> ELSE <<>>)
    \o (IF core > 0 THEN <<[c |-> "a", n |-> core]>> ELSE <<>>)
    \o (IF trail > 0 THEN <<[c |-> " ", n |-> trail]>> ELSE <<>>)

PadLengths == {0, 1}
CoreLengths == {0, 1, max_length, max_length + 1}

KagiQueries == {MakeQuery(l, c, t) : l \in PadLengths, c \in CoreLengths, t \in PadLengths}

\* The Retry-After header of a 429: absent, or one of these values.
RetryAfterValues ==
    { None, <<>>, <<"1">>, <<"0">>, <<"1", "2">>, <<"-", "1">>, <<" ", "7">>, <<"x">>,
      <<"1", ".", "5">> }

ErrorBodies == {"empty", "notjson", "json_msg", "json_nomsg", "json_emptyerr"}

\* What one GET can bring: an exception of the transport, or a response.
KagiResponses ==
    { [kind |-> "exception"] }
    \cup { [kind |-> "http", status |-> 200, retry_after |-> None, body |-> b] :
             b \in {"json", "notjson"} }
    \cup { [kind |-> "http", status |-> 429, retry_after |-> ra, body |-> "json_msg"] :
             ra \in RetryAfterValues }
    \cup { [kind |-> "http", status |-> st, retry_after |-> None, body |-> b] :
             st \in {400, 500}, b \in ErrorBodies }

InitKagi ==
    /\ SanIdle
    /\ LlmIdle
    /\ FmIdle
    /\ AnIdle
    /\ BdIdle
    /\ WsIdle
    /\ StdIdle
    /\ CcIdle
    /\ kg_pc = "start"
    /\ kg_query \in KagiQueries
    /\ kg_limit \in {{}, {5}}
    /\ kg_max_retries \in (-1..MaxRetries) \cup {DEFAULT_MAX_RETRIES}
    /\ kg_attempt = 0
    /\ kg_requests = <<>>
    /\ kg_responses = <<>>
    /\ kg_sleeps = <<>>
    /\ kg_open = 0
    /\ kg_outcome = [kind |-> "none"]

\* Lines 91-106: validate, build params, and enter the loop: open a client and
\* issue the first GET. With max_retries < 1 the loop body never runs and
\* lines 153-155 raise.
KagiStart ==
    /\ kg_pc = "start"
    /\ LET v == validate_query(kg_query)
       IN  IF ~v.ok
           THEN /\ kg_outcome' = [kind |-> "raise", type |-> "SearchError",
                                  status |-> 0, detail |-> v.error]
                /\ kg_pc' = "done"
                /\ UNCHANGED <<kg_requests, kg_open>>
           ELSE IF kg_max_retries < 1
           THEN /\ kg_outcome' = [kind |-> "raise", type |-> "SearchError",
                                  status |-> 0, detail |-> "unknown_after_retries"]
                /\ kg_pc' = "done"
                /\ UNCHANGED <<kg_requests, kg_open>>
           ELSE /\ kg_requests' = Append(kg_requests, Params(v.value, kg_limit))
                /\ kg_open' = kg_open + 1
                /\ kg_pc' = "request"
                /\ UNCHANGED kg_outcome
    /\ UNCHANGED <<kg_query, kg_limit, kg_max_retries, kg_attempt, kg_responses, kg_sleeps,
                   sanVars, llmVars, fmVars, moreVars>>

\* Fault variant: the last 429 is also followed by a backoff sleep, and the
\* error is raised after it.
KagiResponseSleepingBeforeRaise ==
    /\ kg_pc = "request"
    /\ \E resp \in KagiResponses :
        /\ kg_responses' = Append(kg_responses, resp)
        /\ IF resp.kind = "exception"
           THEN /\ kg_outcome' = [kind |-> "raise", type |-> "SearchError",
                                  status |-> 0, detail |-> "exception_text"]
                /\ kg_pc' = "done"
                /\ kg_open' = kg_open - 1
                /\ UNCHANGED kg_sleeps
           ELSE IF IsRateLimited(resp.status)
           THEN IF RetriesRemain(kg_attempt, kg_max_retries)
                THEN /\ kg_sleeps' = Append(kg_sleeps, WaitTime(kg_attempt, resp.retry_after))
                     /\ kg_pc' = "sleep"
                     /\ UNCHANGED <<kg_outcome, kg_open>>
                ELSE /\ kg_outcome' = [kind |-> "raise", type |-> "RateLimitError",
                                       status |-> 429, detail |-> "max_retries_exceeded"]
                     /\ kg_pc' = "done"
                     /\ kg_open' = kg_open - 1
                     /\ kg_sleeps' = Append(kg_sleeps, WaitTime(kg_attempt, resp.retry_after))
           ELSE IF resp.status # 200
           THEN /\ kg_outcome' = [kind |-> "raise"] @@ ErrorFor(resp.status, resp.body)
                /\ kg_pc' = "done"
                /\ kg_open' = kg_open - 1
                /\ UNCHANGED kg_sleeps
           ELSE IF resp.body = "notjson"
           THEN /\ kg_outcome' = [kind |-> "raise", type |-> "SearchError",
                                  status |-> 0, detail |-> "exception_text"]
                /\ kg_pc' = "done"
                /\ kg_open' = kg_open - 1
                /\ UNCHANGED kg_sleeps
           ELSE \* The parsed body of this response, named by the response's number.
                /\ kg_outcome' = [kind |-> "return", value |-> Len(kg_responses) + 1]
                /\ kg_pc' = "done"
                /\ kg_open' = kg_open - 1
                /\ UNCHANGED kg_sleeps
    /\ UNCHANGED <<kg_query, kg_limit, kg_max_retries, kg_attempt, kg_requests,
                   sanVars, llmVars, fmVars, moreVars>>

\* Lines 102-150: the GET has answered or raised.
KagiResponse ==
    /\ kg_pc = "request"
    /\ \E resp \in KagiResponses :
        /\ kg_responses' = Append(kg_responses, resp)
        /\ IF resp.kind = "exception"
           THEN /\ kg_outcome' = [kind |-> "raise", type |-> "SearchError",
                                  status |-> 0, detail |-> "exception_text"]
                /\ kg_pc' = "done"
                /\ kg_open' = kg_open - 1
                /\ UNCHANGED kg_sleeps
           ELSE IF IsRateLimited(resp.status)
           THEN IF RetriesRemain(kg_attempt, kg_max_retries)
                THEN /\ kg_sleeps' = Append(kg_sleeps, WaitTime(kg_attempt, resp.retry_after))
                     /\ kg_pc' = "sleep"
                     /\ UNCHANGED <<kg_outcome, kg_open>>
                ELSE /\ kg_outcome' = [kind |-> "raise", type |-> "RateLimitError",
                                       status |-> 429, detail |-> "max_retries_exceeded"]
                     /\ kg_pc' = "done"
                     /\ kg_open' = kg_open - 1
                     /\ UNCHANGED kg_sleeps
           ELSE IF resp.status # 200
           THEN /\ kg_outcome' = [kind |-> "raise"] @@ ErrorFor(resp.status, resp.body)
                /\ kg_pc' = "done"
                /\ kg_open' = kg_open - 1
                /\ UNCHANGED kg_sleeps
           ELSE IF resp.body = "notjson"
           THEN /\ kg_outcome' = [kind |-> "raise", type |-> "SearchError",
                                  status |-> 0, detail |-> "exception_text"]
                /\ kg_pc' = "done"
                /\ kg_open' = kg_open - 1
                /\ UNCHANGED kg_sleeps
           ELSE \* The parsed body of this response, named by the response's number.
                /\ kg_outcome' = [kind |-> "return", value |-> Len(kg_responses) + 1]
                /\ kg_pc' = "done"
                /\ kg_open' = kg_open - 1
                /\ UNCHANGED kg_sleeps
    /\ UNCHANGED <<kg_query, kg_limit, kg_max_retries, kg_attempt, kg_requests,
                   sanVars, llmVars, fmVars, moreVars>>

\* Fault variant: the client of the attempt that was rate limited is not closed
\* before the next attempt opens its own.
KagiWakeLeakingClient ==
    /\ kg_pc = "sleep"
    /\ IF kg_attempt + 1 < kg_max_retries
       THEN /\ kg_attempt' = kg_attempt + 1
            /\ kg_requests' = Append(kg_requests, kg_requests[Len(kg_requests)])
            /\ kg_open' = kg_open + 1
            /\ kg_pc' = "request"
            /\ UNCHANGED kg_outcome
       ELSE \* range(max_retries) is exhausted: lines 153-155, last_exception is None.
            /\ kg_outcome' = [kind |-> "raise", type |-> "SearchError",
                              status |-> 0, detail |-> "unknown_after_retries"]
            /\ kg_open' = kg_open - 1
            /\ kg_pc' = "done"
            /\ UNCHANGED <<kg_attempt, kg_requests>>
    /\ UNCHANGED <<kg_query, kg_limit, kg_max_retries, kg_responses, kg_sleeps,
                   sanVars, llmVars, fmVars, moreVars>>

\* Lines 127-128 and 99-106: the sleep is over; `continue` closes the client,
\* the loop takes the next attempt, opens a client and issues the GET again.
KagiWake ==
    /\ kg_pc = "sleep"
    /\ IF kg_attempt + 1 < kg_max_retries
       THEN /\ kg_attempt' = kg_attempt + 1
            /\ kg_requests' = Append(kg_requests, kg_requests[Len(kg_requests)])
            /\ kg_open' = (kg_open - 1) + 1
            /\ kg_pc' = "request"
            /\ UNCHANGED kg_outcome
       ELSE \* range(max_retries) is exhausted: lines 153-155, last_exception is None.
            /\ kg_outcome' = [kind |-> "raise", type |-> "SearchError",
                              status |-> 0, detail |-> "unknown_after_retries"]
            /\ kg_open' = kg_open - 1
            /\ kg_pc' = "done"
            /\ UNCHANGED <<kg_attempt, kg_requests>>
    /\ UNCHANGED <<kg_query, kg_limit, kg_max_retries, kg_responses, kg_sleeps,
                   sanVars, llmVars, fmVars, moreVars>>

NextKagi == KagiStart \/ KagiResponse \/ KagiWake

SpecKagi == InitKagi /\ [][NextKagi]_vars

(***************************************************************************)
(* fetch_models as a process: one action per stretch of code between two   *)
(* awaits (the GETs).                                                      *)
(***************************************************************************)
FmBindings ==
    { OPENAI, OLLAMA, <<"O", "l", "l", "a", "m", "a">>, ANTHROPIC }

FmBaseUrls ==
    { HTTPS \o API_EXAMPLE \o V1,
      HTTP \o LOCALHOST \o PORT_11434 \o V1 \o <<"/">>,
      HTTP \o <<"h">> \o V1 \o <<"b">> \o V1,
      HTTPS \o OLLAMA_COM \o V1,
      HTTPS \o OLLAMA_COM \o PORT_11434,
      HTTPS \o <<"O", "L", "L", "A", "M", "A", ".", "C", "O", "M">>,
      HTTP \o <<"m", "y", "-">> \o OLLAMA }

TagEntries ==
    { [t |-> "dict", id |-> Absent, name |-> <<"n">>],
      [t |-> "dict", id |-> <<"i">>, name |-> Absent],
      [t |-> "str", s |-> <<"s">>] }

ModelEntries ==
    { [t |-> "dict", id |-> <<"i">>, name |-> Absent],
      [t |-> "dict", id |-> Absent, name |-> <<"n">>],
      [t |-> "dict", id |-> <<"i">>, name |-> <<"n">>],
      [t |-> "dict", id |-> Absent, name |-> Absent],
      [t |-> "str", s |-> <<"s">>] }

\* The lists of at most n entries drawn from E.
RECURSIVE ListsOf(_, _)
ListsOf(E, n) ==
    IF n = 0 THEN {<<>>}
    ELSE LET prev == ListsOf(E, n - 1)
         IN  prev \cup {Append(l, e) : l \in prev, e \in E}

JAbsent == [t |-> "absent"]
JNull == [t |-> "null"]
JList(l) == [t |-> "list", items |-> l]
JDict(d, m) == [t |-> "dict", data |-> d, models |-> m]

TagsBodies ==
    { [t |-> "notjson"], JNull, JList(<<>>), JDict(JAbsent, JAbsent), JDict(JAbsent, JNull) }
    \cup { JDict(JAbsent, JList(l)) : l \in ListsOf(TagEntries, MaxEntries) }

ModelsBodies ==
    { [t |-> "notjson"], JNull, JDict(JAbsent, JAbsent), JDict(JNull, JNull),
      JDict(JList(<<[t |-> "dict", id |-> <<"i">>, name |-> Absent]>>),
            JList(<<[t |-> "str", s |-> <<"s">>]>>)) }
    \cup { JList(l) : l \in ListsOf(ModelEntries, MaxEntries) }
    \cup { JDict(JList(l), JAbsent) : l \in ListsOf(ModelEntries, MaxEntries) }
    \cup { JDict(JAbsent, JList(l)) : l \in ListsOf(ModelEntries, MaxEntries) }

HttpResponses(bodies) ==
    { [kind |-> "exception"] }
    \cup { [kind |-> "http", status |-> st, body |-> [t |-> "notjson"]] : st \in {404, 500} }
    \cup { [kind |-> "http", status |-> 200, body |-> b] : b \in bodies }

InitFetch ==
    /\ SanIdle
    /\ LlmIdle
    /\ KgIdle
    /\ AnIdle
    /\ BdIdle
    /\ WsIdle
    /\ StdIdle
    /\ CcIdle
    /\ fm_pc = "start"
    /\ fm_binding \in FmBindings
    /\ fm_arg_url \in FmBaseUrls
    /\ fm_base_url = fm_arg_url
    /\ fm_probes = <<>>
    /\ fm_resps = <<>>
    /\ fm_diag = <<>>
    /\ fm_open = 0
    /\ fm_outcome = [kind |-> "none"]

\* Lines 86-110 or 86-120: open the session and issue the first GET.
FetchStart ==
    /\ fm_pc = "start"
    /\ LET binding == Lower(fm_binding)
           base_url == RStrip(fm_arg_url, SLASH)
       IN  /\ fm_base_url' = base_url
           /\ IF is_likely_local_ollama(binding, base_url)
              THEN /\ fm_probes' = Append(fm_probes, TagsUrl(base_url))
                   /\ fm_pc' = "tags"
              ELSE /\ fm_probes' = Append(fm_probes, ModelsUrl(base_url))
                   /\ fm_pc' = "models"
    /\ fm_open' = fm_open + 1
    /\ UNCHANGED <<fm_binding, fm_arg_url, fm_resps, fm_diag, fm_outcome,
                   sanVars, llmVars, kgVars, moreVars>>

\* Lines 110-120: the strategy-1 GET has answered or raised.
FetchTagsDone ==
    /\ fm_pc = "tags"
    /\ \E resp \in HttpResponses(TagsBodies) :
        LET r == TagsProbe(resp)
        IN  /\ fm_resps' = Append(fm_resps, resp)
            /\ IF r.returned
               THEN /\ fm_outcome' = [kind |-> "return", value |-> r.value]
                    /\ fm_open' = fm_open - 1
                    /\ fm_pc' = "done"
                    /\ UNCHANGED fm_probes
               ELSE /\ fm_probes' = Append(fm_probes, ModelsUrl(fm_base_url))
                    /\ fm_pc' = "models"
                    /\ UNCHANGED <<fm_outcome, fm_open>>
    /\ UNCHANGED <<fm_binding, fm_arg_url, fm_base_url, fm_diag, sanVars, llmVars, kgVars, moreVars>>

\* Lines 120-165: the strategy-2 GET has answered or raised.
FetchModelsDone ==
    /\ fm_pc = "models"
    /\ \E resp \in HttpResponses(ModelsBodies) :
        LET r == ModelsProbe(resp)
        IN  /\ fm_resps' = Append(fm_resps, resp)
            /\ IF r.next = "return"
               THEN /\ fm_outcome' = [kind |-> "return", value |-> r.value]
                    /\ fm_open' = fm_open - 1
                    /\ fm_pc' = "done"
                    /\ UNCHANGED <<fm_probes, fm_diag>>
               ELSE IF r.next = "raise"
               THEN /\ fm_outcome' = CaughtOutcome
                    /\ fm_diag' = Append(fm_diag, "error_fetching_models")
                    /\ fm_open' = fm_open - 1
                    /\ fm_pc' = "done"
                    /\ UNCHANGED fm_probes
               ELSE IF IsCloudHost(fm_base_url)
               THEN /\ fm_probes' = Append(fm_probes, TagsUrl(fm_base_url))
                    /\ fm_pc' = "cloud_tags"
                    /\ UNCHANGED <<fm_outcome, fm_open, fm_diag>>
               ELSE /\ fm_outcome' = [kind |-> "return", value |-> <<>>]
                    /\ fm_open' = fm_open - 1
                    /\ fm_pc' = "done"
                    /\ UNCHANGED <<fm_probes, fm_diag>>
    /\ UNCHANGED <<fm_binding, fm_arg_url, fm_base_url, sanVars, llmVars, kgVars, moreVars>>

\* Lines 155-165: the last-resort GET has answered or raised.
FetchCloudTagsDone ==
    /\ fm_pc = "cloud_tags"
    /\ \E resp \in HttpResponses(TagsBodies) :
        /\ fm_resps' = Append(fm_resps, resp)
        /\ fm_outcome' = [kind |-> "return", value |-> CloudTagsProbe(resp)]
    /\ fm_open' = fm_open - 1
    /\ fm_pc' = "done"
    /\ UNCHANGED <<fm_binding, fm_arg_url, fm_base_url, fm_probes, fm_diag,
                   sanVars, llmVars, kgVars, moreVars>>

NextFetch == FetchStart \/ FetchTagsDone \/ FetchModelsDone \/ FetchCloudTagsDone

SpecFetch == InitFetch /\ [][NextFetch]_vars

(***************************************************************************)
(* LLMFactory.anthropic_complete (llm_factory.py 15-60) as a process: one  *)
(* action per stretch of code between two awaits.                          *)
(***************************************************************************)
ANTHROPIC_MESSAGES_URL ==
    HTTPS \o <<"a", "p", "i", ".", "a", "n", "t", "h", "r", "o", "p", "i", "c", ".", "c", "o", "m">>
    \o V1 \o MESSAGES

\* Line 26: api_key or os.getenv("ANTHROPIC_API_KEY").
Credential(api_key, env_key) == Or(api_key, env_key)

\* Lines 31-36: the URL the POST goes to.
AnthropicUrl(base_url) ==
    IF ~Truthy(base_url) THEN ANTHROPIC_MESSAGES_URL
    ELSE LET url == RStrip(base_url, SLASH)
         IN  IF EndsWith(url, MESSAGES) THEN url ELSE url \o MESSAGES

\* Fault variant: every 2xx status counts as a success.
IsAnthropicErrorNon2xx(status) == status < 200 \/ status > 299

\* Line 54: response.status != 200.
IsAnthropicError(status) == status # 200

\* Lines 54-60: how the call ends for a response. A response is
\* [kind |-> "exception"] (session.post raised) or
\* [kind |-> "http", status |-> n, body |-> b], b one of
\*   [shape |-> "notjson"]              response.json() raises
\*   [shape |-> "nocontent"]            an object without "content"
\*   [shape |-> "emptycontent"]         "content": []
\*   [shape |-> "notext"]               content[0] has no "text"
\*   [shape |-> "text", text |-> s]     content[0].text is s
\* An error is [type, status, detail]: its class, the status code its message
\* carries (0 when it carries none) and the text that follows.
AnthropicOutcome(resp) ==
    IF resp.kind = "exception"
    THEN [kind |-> "raise", type |-> "ClientError", status |-> 0, detail |-> "exception_text"]
    ELSE IF IsAnthropicError(resp.status)
    THEN [kind |-> "raise", type |-> "Exception", status |-> resp.status,
          detail |-> "response_text"]
    ELSE IF resp.body.shape = "notjson"
    THEN [kind |-> "raise", type |-> "ContentTypeError", status |-> 0,
          detail |-> "exception_text"]
    ELSE IF resp.body.shape \in {"nocontent", "notext"}
    THEN [kind |-> "raise", type |-> "KeyError", status |-> 0, detail |-> "exception_text"]
    ELSE IF resp.body.shape = "emptycontent"
    THEN [kind |-> "raise", type |-> "IndexError", status |-> 0, detail |-> "exception_text"]
    ELSE [kind |-> "return", value |-> resp.body.text]

AnthropicResponses ==
    { [kind |-> "exception"] }
    \cup { [kind |-> "http", status |-> st, body |-> b] :
             st \in {200, 201, 204, 400, 429, 500},
             b \in { [shape |-> sh, text |-> <<>>] :
                       sh \in {"notjson", "nocontent", "emptycontent", "notext"} }
                   \cup { [shape |-> "text", text |-> t] : t \in {<<>>, <<"h", "i">>} } }

InitAnthropic ==
    /\ SanIdle
    /\ LlmIdle
    /\ KgIdle
    /\ FmIdle
    /\ BdIdle
    /\ WsIdle
    /\ StdIdle
    /\ CcIdle
    /\ an_pc = "start"
    /\ an_api_key \in {None, <<>>, <<"k">>}
    /\ an_env_key \in {None, <<>>, <<"e">>}
    /\ an_base_url \in { None, <<>>, HTTPS \o API_EXAMPLE \o V1,
                          HTTPS \o API_EXAMPLE \o V1 \o <<SLASH>>,
                          HTTPS \o API_EXAMPLE \o V1 \o MESSAGES }
    /\ an_posts = <<>>
    /\ an_resp = <<>>
    /\ an_open = 0
    /\ an_outcome = [kind |-> "none"]

\* Lines 26-53: resolve the credential, build the URL, open a session and POST.
AnthropicStart ==
    /\ an_pc = "start"
    /\ LET api_key == Credential(an_api_key, an_env_key)
       IN  IF ~Truthy(api_key)
           THEN /\ an_outcome' = [kind |-> "raise", type |-> "ValueError", status |-> 0,
                                  detail |-> "api_key_missing"]
                /\ an_pc' = "done"
                /\ UNCHANGED <<an_posts, an_open>>
           ELSE /\ an_posts' = Append(an_posts, [url |-> AnthropicUrl(an_base_url),
                                                 key |-> api_key])
                /\ an_open' = an_open + 1
                /\ an_pc' = "post"
                /\ UNCHANGED an_outcome
    /\ UNCHANGED <<an_api_key, an_env_key, an_base_url, an_resp,
                   sanVars, llmVars, kgVars, fmVars, bdVars, wsVars, stdVars, ccVars>>

\* Lines 53-60: the POST has answered or raised; both context managers exit.
AnthropicResponse ==
    /\ an_pc = "post"
    /\ \E resp \in AnthropicResponses :
        /\ an_resp' = Append(an_resp, resp)
        /\ an_outcome' = AnthropicOutcome(resp)
    /\ an_open' = an_open - 1
    /\ an_pc' = "done"
    /\ UNCHANGED <<an_api_key, an_env_key, an_base_url, an_posts,
                   sanVars, llmVars, kgVars, fmVars, bdVars, wsVars, stdVars, ccVars>>

NextAnthropic == AnthropicStart \/ AnthropicResponse

SpecAnthropic == InitAnthropic /\ [][NextAnthropic]_vars

(***************************************************************************)
(* BaiduAISearch.search (baidu.py 27-91) as a process.                     *)
(***************************************************************************)
\* Lines 84-91: how the call ends for a response. A response is
\* [kind |-> "exception"] (client.post raised) or
\* [kind |-> "http", status |-> n, body |-> b], b one of
\*   "empty"       response.text is ""
\*   "notjson"     a text response.json() cannot parse
\*   "json_msg"    a JSON object with a "message"
\*   "json_nomsg"  a JSON object without "message"
\*   "json_list"   a non-empty JSON array
BaiduOutcome(resp) ==
    IF resp.kind = "exception"
    THEN [kind |-> "raise", type |-> "TransportError", status |-> 0,
          detail |-> "exception_text"]
    ELSE IF resp.status # 200
    THEN CASE resp.body = "empty" ->
                [kind |-> "raise", type |-> "Exception", status |-> resp.status,
                 detail |-> "response_text"]
           [] resp.body = "notjson" ->
                [kind |-> "raise", type |-> "JSONDecodeError", status |-> 0,
                 detail |-> "exception_text"]
           [] resp.body = "json_msg" ->
                [kind |-> "raise", type |-> "Exception", status |-> resp.status,
                 detail |-> "error_msg"]
           [] resp.body = "json_nomsg" ->
                [kind |-> "raise", type |-> "Exception", status |-> resp.status,
                 detail |-> "response_text"]
           [] resp.body = "json_list" ->
                [kind |-> "raise", type |-> "AttributeError", status |-> 0,
                 detail |-> "exception_text"]
    ELSE IF resp.body \in {"empty", "notjson"}
    THEN [kind |-> "raise", type |-> "JSONDecodeError", status |-> 0,
          detail |-> "exception_text"]
    ELSE [kind |-> "return", value |-> resp.body]

BaiduResponses ==
    { [kind |-> "exception"] }
    \cup { [kind |-> "http", status |-> st, body |-> b] :
             st \in {200, 201, 400, 429, 500},
             b \in {"empty", "notjson", "json_msg", "json_nomsg", "json_list"} }

InitBaidu ==
    /\ SanIdle
    /\ LlmIdle
    /\ KgIdle
    /\ FmIdle
    /\ AnIdle
    /\ WsIdle
    /\ StdIdle
    /\ CcIdle
    /\ bd_pc = "start"
    /\ bd_query \in {<<>>, <<" ">>, <<"q">>}
    /\ bd_recency \in {None, <<>>, <<"w", "e", "e", "k">>}
    /\ bd_posts = <<>>
    /\ bd_resp = <<>>
    /\ bd_open = 0
    /\ bd_outcome = [kind |-> "none"]

\* Lines 62-82: build the payload, open a client and POST.
BaiduStart ==
    /\ bd_pc = "start"
    /\ bd_posts' = Append(bd_posts,
                          [content |-> bd_query,
                           search_recency_filter |->
                               IF Truthy(bd_recency) THEN bd_recency ELSE Absent])
    /\ bd_open' = bd_open + 1
    /\ bd_pc' = "post"
    /\ UNCHANGED <<bd_query, bd_recency, bd_resp, bd_outcome,
                   sanVars, llmVars, kgVars, fmVars, anVars, wsVars, stdVars, ccVars>>

\* Lines 82-91: the POST has answered or raised; the client context exits.
BaiduResponse ==
    /\ bd_pc = "post"
    /\ \E resp \in BaiduResponses :
        /\ bd_resp' = Append(bd_resp, resp)
        /\ bd_outcome' = BaiduOutcome(resp)
    /\ bd_open' = bd_open - 1
    /\ bd_pc' = "done"
    /\ UNCHANGED <<bd_query, bd_recency, bd_posts,
                   sanVars, llmVars, kgVars, fmVars, anVars, wsVars, stdVars, ccVars>>

NextBaidu == BaiduStart \/ BaiduResponse

SpecBaidu == InitBaidu /\ [][NextBaidu]_vars

(***************************************************************************)
(* The standardization of a Kagi response in _search_with_kagi             *)
(* (web_search.py 188-229), applied to response bodies of bounded length.  *)
(* A body is [data |-> {}] (no "data" key) or [data |-> {d}], d a sequence *)
(* of records; a record holds its "t" as a set ({} when the key is missing)*)
(* and Absent for every other key it lacks.                                *)
(***************************************************************************)
\* Line 192: item.get("t", -1).
ItemTypeDefaultResult(item) == IF item.t = {} THEN 0 ELSE CHOOSE x \in item.t : TRUE

ItemType(item) == IF item.t = {} THEN -1 ELSE CHOOSE x \in item.t : TRUE

\* str(n) of a natural number.
RECURSIVE Str(_)
Str(n) ==
    LET d == CHOOSE c \in Digits : DigitValue(c) = n % 10
    IN  IF n < 10 THEN <<d>> ELSE Str(n \div 10) \o <<d>>

\* Lines 196-201: the search result built from a type-0 record.
SearchResultOf(item) ==
    [ title |-> Get(item, "title", <<>>),
      url |-> Get(item, "url", <<>>),
      snippet |-> Get(item, "snippet", <<>>),
      date |-> Get(item, "published", <<>>) ]

\* Lines 205-215: the citation built from a type-0 record when n citations
\* exist already.
CitationOf(item, n) ==
    [ id |-> n + 1,
      reference |-> <<"[">> \o Str(n + 1) \o <<"]">>,
      url |-> Get(item, "url", <<>>),
      title |-> Get(item, "title", <<>>),
      snippet |-> Get(item, "snippet", <<>>),
      date |-> Get(item, "published", <<>>),
      thumbnail |-> IF Truthy(Get(item, "thumbnail", None)) THEN item.thumbnail ELSE Absent ]

\* Lines 191-219: one turn of the loop over data.
StandardizeItem(acc, item) ==
    IF ItemType(item) = 0
    THEN [acc EXCEPT !.search_results = Append(@, SearchResultOf(item)),
                     !.citations = Append(@, CitationOf(item, Len(acc.citations)))]
    ELSE IF ItemType(item) = 1
    THEN [acc EXCEPT !.related_searches = @ \o Get(item, "list", <<>>)]
    ELSE acc

RECURSIVE StandardizeItems(_, _)
StandardizeItems(acc, data) ==
    IF data = <<>> THEN acc
    ELSE StandardizeItems(StandardizeItem(acc, Head(data)), Tail(data))

\* " ".join(strs).
RECURSIVE JoinWithSpace(_)
JoinWithSpace(strs) ==
    IF strs = <<>> THEN <<>>
    ELSE IF Len(strs) = 1 THEN strs[1]
    ELSE strs[1] \o <<" ">> \o JoinWithSpace(Tail(strs))

\* The snippets of a sequence of search results.
RECURSIVE SnippetsOf(_)
SnippetsOf(results) ==
    IF results = <<>> THEN <<>>
    ELSE (IF Truthy(results[1].snippet) THEN <<results[1].snippet>> ELSE <<>>)
         \o SnippetsOf(Tail(results))

\* Fault variant: the answer joins the snippets of every result.
AnswerOfAllResults(results) == JoinWithSpace(SnippetsOf(results))

\* Lines 226-228: the answer joins the non-empty snippets of results[:3].
AnswerOf(results) ==
    JoinWithSpace(SnippetsOf(SubSeq(results, 1, IF Len(results) < 3 THEN Len(results) ELSE 3)))

\* Lines 188-229: the fields of the result that depend on the response's data.
StandardizeKagi(response) ==
    LET data == IF response.data = {} THEN <<>> ELSE CHOOSE d \in response.data : TRUE
        acc == StandardizeItems([search_results |-> <<>>, citations |-> <<>>,
                                 related_searches |-> <<>>], data)
        answer == IF acc.search_results # <<>> THEN AnswerOf(acc.search_results) ELSE <<>>
    IN  [ answer |-> answer,
          content |-> answer,
          citations |-> acc.citations,
          search_results |-> acc.search_results,
          related_searches |->
              IF acc.related_searches # <<>> THEN {acc.related_searches} ELSE {} ]

\* The records a response body is made of.
KagiItems ==
    LET Item(t, title, url, snippet, published, thumbnail, list) ==
            [t |-> t, title |-> title, url |-> url, snippet |-> snippet,
             published |-> published, thumbnail |-> thumbnail, list |-> list]
    IN  { Item({0}, <<"T">>, <<"u">>, <<"a">>, <<"d">>, <<"i">>, Absent),
          Item({0}, <<"S">>, <<"v">>, <<"b">>, Absent, Absent, Absent),
          Item({0}, Absent, <<"w">>, Absent, Absent, Absent, Absent),
          Item({0}, <<"E">>, <<"x">>, <<>>, <<>>, <<>>, Absent),
          Item({1}, Absent, Absent, Absent, Absent, Absent, <<"r", "s">>),
          Item({1}, Absent, Absent, Absent, Absent, Absent, Absent),
          Item({2}, <<"n">>, <<"y">>, <<"c">>, Absent, Absent, Absent),
          Item({}, <<"m">>, <<"z">>, <<"c">>, Absent, Absent, <<"q">>) }

KagiBodies ==
    { [data |-> {}] }
    \cup { [data |-> {d}] : d \in UNION { [1..n -> KagiItems] : n \in 0..MaxItems } }

InitStd ==
    /\ SanIdle
    /\ LlmIdle
    /\ KgIdle
    /\ FmIdle
    /\ AnIdle
    /\ BdIdle
    /\ WsIdle
    /\ CcIdle
    /\ std_pc = "start"
    /\ std_response \in KagiBodies
    /\ std_result = [kind |-> "none"]

StdApply ==
    /\ std_pc = "start"
    /\ std_result' = StandardizeKagi(std_response)
    /\ std_pc' = "done"
    /\ UNCHANGED <<std_response, sanVars, llmVars, kgVars, fmVars, anVars, bdVars, wsVars,
                   ccVars>>

SpecStd == InitStd /\ [][StdApply]_vars

(***************************************************************************)
(* The search tool layer (web_search.py): web_search (350-441) and         *)
(* _search_with_kagi (136-237) called directly. The Kagi and Baidu clients *)
(* they await are the processes above; the Perplexity client is a library  *)
(* call whose outcome is open.                                             *)
(***************************************************************************)
\* Lines 440-441: raise Exception(f"{provider.capitalize()} API call failed: {e!s}").
\* The message keeps the text of e; its class is kept here as cause.
ApiCallFailed(e) ==
    [kind |-> "raise", type |-> "Exception", status |-> e.status, detail |-> e.detail,
     cause |-> e.type]

\* Lines 410-441: what web_search does with the provider function's outcome:
\* an error is wrapped; a result is saved when output_dir is given (saved tells
\* whether writing the file succeeded) and returned.
FinishWebSearch(inner, output_dir, saved) ==
    IF inner.kind = "raise" THEN ApiCallFailed(inner)
    ELSE IF ~Truthy(output_dir) THEN [inner EXCEPT !.result_file = FALSE]
    ELSE IF saved THEN [inner EXCEPT !.result_file = TRUE]
    ELSE ApiCallFailed([type |-> "OSError", status |-> 0, detail |-> "exception_text"])

InitWeb ==
    /\ SanIdle
    /\ LlmIdle
    /\ FmIdle
    /\ AnIdle
    /\ StdIdle
    /\ CcIdle
    /\ ws_pc = "start"
    /\ ws_entry \in {"web_search", "_search_with_kagi"}
    /\ ws_provider \in { None, <<"k", "a", "g", "i">>, <<"K", "a", "g", "i">>,
                         <<"b", "a", "i", "d", "u">>, <<"x">> }
    /\ ws_entry = "_search_with_kagi" => ws_provider = None
    /\ ws_kagi_key \in {None, <<>>, <<"k">>}
    /\ ws_baidu_key \in {None, <<"b">>}
    /\ Lower(Or(ws_provider, <<"x">>)) # <<"b", "a", "i", "d", "u">> => ws_baidu_key = None
    /\ (ws_entry = "web_search" /\ Lower(Or(ws_provider, <<"x">>)) # <<"k", "a", "g", "i">>)
          => ws_kagi_key = None
    /\ ws_output_dir \in {None, <<"d">>}
    /\ ws_entry = "_search_with_kagi" => ws_output_dir = None
    /\ ws_outcome = [kind |-> "none"]
    /\ \E c \in {0, 1} :
        /\ kg_query = MakeQuery(0, c, 0)
        /\ bd_query = IF c = 0 THEN <<>> ELSE <<"a">>
    /\ kg_pc = "idle"
    /\ kg_limit \in {{}, {5}}
    /\ kg_max_retries = DEFAULT_MAX_RETRIES
    /\ kg_attempt = 0
    /\ kg_requests = <<>>
    /\ kg_responses = <<>>
    /\ kg_sleeps = <<>>
    /\ kg_open = 0
    /\ kg_outcome = [kind |-> "none"]
    /\ bd_pc = "idle"
    /\ bd_recency = <<"w", "e", "e", "k">>
    /\ bd_posts = <<>>
    /\ bd_resp = <<>>
    /\ bd_open = 0
    /\ bd_outcome = [kind |-> "none"]

\* The entry point up to its first await: web_search 388-409 with the provider
\* function it enters, or _search_with_kagi itself. _search_with_perplexity
\* (240-347) does not await: it ends within this step, with a result or with
\* one of its errors.
WsStart ==
    /\ ws_pc = "start"
    /\ LET provider == Lower(IF ws_provider = None
                             THEN <<"p", "e", "r", "p", "l", "e", "x", "i", "t", "y">>
                             ELSE ws_provider)
           \* _search_with_kagi 152-161 up to the await of client.search.
           WsEnterKagi ==
            IF ~Truthy(ws_kagi_key)
            THEN /\ \E saved \in BOOLEAN :
                      LET e == [kind |-> "raise", type |-> "ValueError", status |-> 0,
                                detail |-> "kagi_api_key_not_set"]
                      IN  ws_outcome' = IF ws_entry = "web_search"
                                        THEN FinishWebSearch(e, ws_output_dir, saved)
                                        ELSE e
                 /\ ws_pc' = "done"
                 /\ UNCHANGED <<kg_pc, bd_pc>>
            ELSE /\ kg_pc' = "start"
                 /\ ws_pc' = "kagi"
                 /\ UNCHANGED <<ws_outcome, bd_pc>>
           \* _search_with_baidu 51-60 up to the await of client.search.
           WsEnterBaidu ==
            IF ~Truthy(ws_baidu_key)
            THEN /\ ws_outcome' = ApiCallFailed([type |-> "ValueError", status |-> 0,
                                                 detail |-> "baidu_api_key_not_set"])
                 /\ ws_pc' = "done"
                 /\ UNCHANGED <<kg_pc, bd_pc>>
            ELSE /\ bd_pc' = "start"
                 /\ ws_pc' = "baidu"
                 /\ UNCHANGED <<ws_outcome, kg_pc>>
       IN  IF ws_entry = "_search_with_kagi" \/ provider = <<"k", "a", "g", "i">>
           THEN WsEnterKagi
           ELSE IF provider = <<"b", "a", "i", "d", "u">>
           THEN WsEnterBaidu
           ELSE IF provider = <<"p", "e", "r", "p", "l", "e", "x", "i", "t", "y">>
           THEN /\ \E saved \in BOOLEAN :
                   \E inner \in
                        { [kind |-> "return", provider |-> "perplexity",
                           result |-> "perplexity_result", result_file |-> FALSE] }
                        \cup { [kind |-> "raise", type |-> t, status |-> 0,
                                detail |-> "exception_text"] :
                                 t \in {"ImportError", "ValueError", "APIError"} } :
                      ws_outcome' = FinishWebSearch(inner, ws_output_dir, saved)
                /\ ws_pc' = "done"
                /\ UNCHANGED <<kg_pc, bd_pc>>
           ELSE /\ ws_outcome' = ApiCallFailed([type |-> "ValueError", status |-> 0,
                                                detail |-> "unsupported_provider"])
                /\ ws_pc' = "done"
                /\ UNCHANGED <<kg_pc, bd_pc>>
    /\ UNCHANGED <<ws_entry, ws_provider, ws_kagi_key, ws_baidu_key, ws_output_dir,
                   kg_query, kg_limit, kg_max_retries, kg_attempt, kg_requests, kg_responses,
                   kg_sleeps, kg_open, kg_outcome,
                   bd_query, bd_recency, bd_posts, bd_resp, bd_open, bd_outcome,
                   sanVars, llmVars, fmVars, anVars, stdVars, ccVars>>

\* client.search has ended: _search_with_kagi 161-237 standardizes the body of
\* the 200 response or lets the client's error pass, then web_search 410-441.
WsKagiDone ==
    /\ ws_pc = "kagi"
    /\ kg_pc = "done"
    /\ \E saved \in BOOLEAN :
       \E body \in {[data |-> {}]} \cup {[data |-> {<<item>>}] : item \in KagiItems} :
          LET inner == IF kg_outcome.kind = "raise" THEN kg_outcome
                       ELSE [kind |-> "return", provider |-> "kagi",
                             result |-> StandardizeKagi(body), result_file |-> FALSE]
          IN  ws_outcome' = IF ws_entry = "web_search"
                            THEN FinishWebSearch(inner, ws_output_dir, saved)
                            ELSE inner
    /\ ws_pc' = "done"
    /\ UNCHANGED <<ws_entry, ws_provider, ws_kagi_key, ws_baidu_key, ws_output_dir,
                   sanVars, llmVars, kgVars, fmVars, anVars, bdVars, stdVars, ccVars>>

\* client.search has ended: _search_with_baidu 60-133 standardizes the parsed
\* body (a body that is not an object has no .get) or lets the client's error
\* pass, then web_search 410-441.
WsBaiduDone ==
    /\ ws_pc = "baidu"
    /\ bd_pc = "done"
    /\ \E saved \in BOOLEAN :
          LET inner == IF bd_outcome.kind = "raise" THEN bd_outcome
                       ELSE IF bd_outcome.value = "json_list"
                       THEN [kind |-> "raise", type |-> "AttributeError", status |-> 0,
                             detail |-> "exception_text"]
                       ELSE [kind |-> "return", provider |-> "baidu",
                             result |-> "baidu_result", result_file |-> FALSE]
          IN  ws_outcome' = FinishWebSearch(inner, ws_output_dir, saved)
    /\ ws_pc' = "done"
    /\ UNCHANGED <<ws_entry, ws_provider, ws_kagi_key, ws_baidu_key, ws_output_dir,
                   sanVars, llmVars, kgVars, fmVars, anVars, bdVars, stdVars, ccVars>>

SpecWeb == InitWeb /\ [][WsStart \/ NextKagi \/ WsKagiDone \/ NextBaidu \/ WsBaiduDone]_vars

(***************************************************************************)
(* Two calls in flight at once on one event loop: each is KagiSearch.search*)
(* on the same KagiSearch instance or llm_complete, and each advances from *)
(* one await to the next while the other is suspended. A call is the frame *)
(* of its coroutine: its arguments (args), its position (pc), the loop     *)
(* variable attempt, and what it has sent, received, slept and produced.   *)
(***************************************************************************)
\* Fault variant: the attempt counter is one variable shared by the calls.
CcFrameSharedAttempt(calls, i) == [calls[i] EXCEPT !.attempt = calls[1].attempt]

\* The locals a call reads are those of its own frame (kagi.py 99: attempt is
\* the loop variable of search; llm_factory.py 213-251: locals of llm_complete).
CcFrame(calls, i) == calls[i]

\* KagiSearch.search (kagi.py 91-155) from one await to the next. headers is
\* self.headers of the instance; input is the response to the pending GET.
KagiSearchStep(c, headers, input) ==
    CASE c.pc = "start" ->
            LET v == validate_query(c.args.query)
            IN  IF ~v.ok
                THEN [c EXCEPT !.pc = "done",
                               !.outcome = [kind |-> "raise", type |-> "SearchError",
                                            status |-> 0, detail |-> v.error]]
                ELSE IF c.args.max_retries < 1
                THEN [c EXCEPT !.pc = "done",
                               !.outcome = [kind |-> "raise", type |-> "SearchError",
                                            status |-> 0,
                                            detail |-> "unknown_after_retries"]]
                ELSE [c EXCEPT !.pc = "request",
                               !.requests = Append(@, [headers |-> headers,
                                                       params |-> Params(v.value,
                                                                         c.args.limit)])]
      [] c.pc = "request" ->
            LET d == [c EXCEPT !.responses = Append(@, input)]
            IN  IF input.kind = "exception"
                THEN [d EXCEPT !.pc = "done",
                               !.outcome = [kind |-> "raise", type |-> "SearchError",
                                            status |-> 0, detail |-> "exception_text"]]
                ELSE IF IsRateLimited(input.status)
                THEN IF RetriesRemain(c.attempt, c.args.max_retries)
                     THEN [d EXCEPT !.pc = "sleep",
                                    !.sleeps = Append(@, WaitTime(c.attempt,
                                                                  input.retry_after))]
                     ELSE [d EXCEPT !.pc = "done",
                                    !.outcome = [kind |-> "raise", type |-> "RateLimitError",
                                                 status |-> 429,
                                                 detail |-> "max_retries_exceeded"]]
                ELSE IF input.status # 200
                THEN [d EXCEPT !.pc = "done",
                               !.outcome = [kind |-> "raise"]
                                           @@ ErrorFor(input.status, input.body)]
                ELSE IF input.body = "notjson"
                THEN [d EXCEPT !.pc = "done",
                               !.outcome = [kind |-> "raise", type |-> "SearchError",
                                            status |-> 0, detail |-> "exception_text"]]
                ELSE [d EXCEPT !.pc = "done",
                               !.outcome = [kind |-> "return", value |-> Len(d.responses)]]
      [] c.pc = "sleep" ->
            IF c.attempt + 1 < c.args.max_retries
            THEN [c EXCEPT !.pc = "request",
                           !.attempt = @ + 1,
                           !.requests = Append(@, [headers |-> headers,
                                                   params |-> c.requests[Len(c.requests)].params])]
            ELSE [c EXCEPT !.pc = "done",
                           !.outcome = [kind |-> "raise", type |-> "SearchError",
                                        status |-> 0, detail |-> "unknown_after_retries"]]

\* llm_complete (llm_factory.py 213-315) from one await to the next. input is
\* the outcome of the primary transport or the response to the fallback POST.
LlmCompleteStep(c, input) ==
    LET complete_fn == get_completion_function(c.args.binding)
        base_url == IF ShouldSanitize(c.args.binding, c.args.base_url, complete_fn)
                    THEN sanitize_url(c.args.base_url, <<"m">>)
                    ELSE c.args.base_url
    IN  CASE c.pc = "start" -> [c EXCEPT !.pc = "primary"]
          [] c.pc = "primary" ->
                LET d == [c EXCEPT !.responses = Append(@, input)]
                IN  IF ~PrimaryFailed(input)
                    THEN [d EXCEPT !.pc = "done",
                                   !.outcome = [kind |-> "return", value |-> input.value]]
                    ELSE IF FallbackApplies(c.args.binding, base_url)
                    THEN [d EXCEPT !.pc = "fallback",
                                   !.requests = Append(@, FallbackUrl(base_url))]
                    ELSE [d EXCEPT !.pc = "done",
                                   !.outcome = [kind |-> "raise",
                                                error |-> Reraised(PrimaryException(input),
                                                                   "none")]]
          [] c.pc = "fallback" ->
                LET d == [c EXCEPT !.responses = Append(@, input)]
                    r == FallbackBlock(input)
                IN  IF r.returned
                    THEN [d EXCEPT !.pc = "done",
                                   !.outcome = [kind |-> "return", value |-> r.value]]
                    ELSE [d EXCEPT !.pc = "done",
                                   !.outcome =
                                       [kind |-> "raise",
                                        error |-> Reraised(PrimaryException(c.responses[1]),
                                                           IF r.diag = "fallback_failed"
                                                           THEN "FallbackError"
                                                           ELSE "none")]]

InitConc ==
    /\ SanIdle
    /\ LlmIdle
    /\ KgIdle
    /\ FmIdle
    /\ AnIdle
    /\ BdIdle
    /\ WsIdle
    /\ StdIdle
    /\ cc_instance = [api_key |-> <<"k">>, headers |-> <<"B", "o", "t", " ", "k">>]
    /\ cc_calls \in
         [1..2 ->
            { [kind |-> k, pc |-> "start", args |-> a, attempt |-> 0, requests |-> <<>>,
               responses |-> <<>>, sleeps |-> <<>>, outcome |-> [kind |-> "none"]] :
                k \in {"kagi"},
                a \in { [query |-> MakeQuery(0, n, 0), limit |-> {}, max_retries |-> m,
                         binding |-> None, base_url |-> None] :
                           n \in {0, 1}, m \in {2, DEFAULT_MAX_RETRIES} } }
            \cup
            { [kind |-> k, pc |-> "start", args |-> a, attempt |-> 0, requests |-> <<>>,
               responses |-> <<>>, sleeps |-> <<>>, outcome |-> [kind |-> "none"]] :
                k \in {"llm"},
                a \in { [query |-> <<>>, limit |-> {}, max_retries |-> 0,
                         binding |-> b, base_url |-> HTTPS \o API_EXAMPLE \o V1] :
                           b \in {OPENAI, ANTHROPIC} } }]

\* The event loop resumes one suspended call, which runs to its next await.
CcStep ==
    /\ cc_calls # <<>>
    /\ \E i \in DOMAIN cc_calls :
        /\ cc_calls[i].pc # "done"
        /\ LET c == CcFrame(cc_calls, i)
               \* What the await the call is suspended at can bring.
               inputs ==
               CASE c.kind = "kagi" /\ c.pc = "request" ->
                       { [kind |-> "exception"],
                         [kind |-> "http", status |-> 200, retry_after |-> None, body |-> "json"],
                         [kind |-> "http", status |-> 429, retry_after |-> None, body |-> "json_msg"],
                         [kind |-> "http", status |-> 429, retry_after |-> <<"7">>, body |-> "json_msg"],
                         [kind |-> "http", status |-> 500, retry_after |-> None, body |-> "json_msg"] }
                 [] c.kind = "llm" /\ c.pc = "primary" ->
                       { [kind |-> "raise"], [kind |-> "return", value |-> <<>>],
                         [kind |-> "return", value |-> <<"4">>] }
                 [] c.kind = "llm" /\ c.pc = "fallback" ->
                       { [kind |-> "exception"],
                         [kind |-> "http", status |-> 500, body |-> [shape |-> "notjson", msg |-> EmptyMsg]],
                         [kind |-> "http", status |-> 200,
                          body |-> [shape |-> "message",
                                    msg |-> [EmptyMsg EXCEPT !.content = <<"4", "2">>]]] }
                 [] OTHER -> { [kind |-> "none"] }
           IN  \E input \in inputs :
                  cc_calls' = [cc_calls EXCEPT
                                 ![i] = IF c.kind = "kagi"
                                        THEN KagiSearchStep(c, cc_instance.headers, input)
                                        ELSE LlmCompleteStep(c, input)]
    /\ UNCHANGED <<cc_instance, sanVars, llmVars, kgVars, fmVars, anVars, bdVars, wsVars,
                   stdVars>>

SpecConc == InitConc /\ [][CcStep]_vars

(***************************************************************************)
(* The whole gateway: one call of any of its operations.                   *)
(***************************************************************************)
Init ==
    \/ InitSanitize
    \/ InitLlm
    \/ InitKagi
    \/ InitFetch
    \/ InitAnthropic
    \/ InitBaidu
    \/ InitStd
    \/ InitWeb
    \/ InitConc

Next ==
    \/ NextSanitize
    \/ NextLlm
    \/ NextKagi
    \/ NextFetch
    \/ NextAnthropic
    \/ NextBaidu
    \/ StdApply
    \/ WsStart
    \/ WsKagiDone
    \/ WsBaiduDone
    \/ CcStep

Spec == Init /\ [][Next]_vars

(***************************************************************************)
(* Claims.                                                                 *)
(***************************************************************************)
\* The spellings of the Anthropic bindings among LlmBindings.
AnthropicSpellings ==
    { ANTHROPIC, <<"A", "n", "t", "h", "r", "o", "p", "i", "c">>,
      CLAUDE, <<"C", "L", "A", "U", "D", "E">> }

\* The spellings among LlmBindings of the bindings listed at lines 255-262.
OpenAIFamilySpellings ==
    { OPENAI, <<"O", "p", "e", "n", "A", "I">>, OLLAMA, OLLAMA_CLOUD, DEEPSEEK, OPENROUTER,
      GEMINI }

Falsy == {Absent, None, <<>>}

\* The first (and only) primary attempt did not produce a usable result.
LlmPrimaryUnusable ==
    /\ llm_primary # <<>>
    /\ (llm_primary[1].kind = "raise" \/ llm_primary[1].value \in Falsy)

\* The error of the primary path: the transport's exception, or the
\* empty-response error.
LlmOriginalError ==
    IF llm_primary[1].kind = "raise" THEN "PrimaryError" ELSE "EmptyResponse"

\* The fallback response carries no usable content.
LlmFallbackUnusable ==
    /\ llm_resp # <<>>
    /\ \/ llm_resp[1].kind = "exception"
       \/ llm_resp[1].status # 200
       \/ llm_resp[1].body.shape # "message"
       \/ \A f \in {"content", "reasoning_content", "reasoning", "thought"} :
              llm_resp[1].body.msg[f] \in Falsy

\* C1: whenever llm_complete does not return a result (the fallback is
\* inapplicable, raises, answers non-200, or answers 200 without usable
\* content) the error raised is the original primary-path error, never the
\* fallback's own; and llm_complete never returns an empty/falsy result.
C1_OriginalErrorReraised ==
    /\ llm_outcome.kind = "return" => llm_outcome.value \notin Falsy
    /\ (llm_pc = "done" /\ llm_outcome.kind # "return")
          => llm_outcome = [kind |-> "raise", error |-> LlmOriginalError]
    /\ (/\ llm_pc = "done"
        /\ LlmPrimaryUnusable
        /\ \/ llm_binding \in AnthropicSpellings
           \/ llm_arg_url \in Falsy
           \/ LlmFallbackUnusable)
          => llm_outcome = [kind |-> "raise", error |-> LlmOriginalError]

\* C1 witness: the primary returned "", the fallback answered 200 with an
\* empty message, and the empty-response error was raised.
C1_Witness ==
    /\ llm_pc = "done"
    /\ llm_primary = <<[kind |-> "return", value |-> <<>>]>>
    /\ llm_resp # <<>>
    /\ llm_resp[1].kind = "http"
    /\ llm_resp[1].status = 200
    /\ llm_resp[1].body.shape = "message"
    /\ llm_resp[1].body.msg.content = <<>>
    /\ LlmFallbackUnusable
    /\ llm_outcome = [kind |-> "raise", error |-> "EmptyResponse"]

\* The fallback answered 200 with a non-empty choices[0].message.content.
LlmFallbackHasContent ==
    /\ llm_resp # <<>>
    /\ llm_resp[1].kind = "http"
    /\ llm_resp[1].status = 200
    /\ llm_resp[1].body.shape = "message"
    /\ llm_resp[1].body.msg.content \notin Falsy

\* C2: for a binding of the OpenAI-compatible family with a base_url that
\* is non-empty as passed to the primary transport, when the primary raises
\* or returns an empty result the fallback POST is issued, and when it
\* answers 200 with non-empty choices[0].message.content c, llm_complete
\* returns c and no error.
C2_FallbackContentReturned ==
    /\ (llm_pc = "done" /\ LlmFallbackHasContent)
          => llm_outcome = [kind |-> "return", value |-> llm_resp[1].body.msg.content]
    /\ (/\ llm_binding \in OpenAIFamilySpellings
        /\ llm_base_url \notin Falsy
        /\ LlmPrimaryUnusable)
          => Len(llm_posts) = 1

\* C2 witness: binding "openai", base_url
\* "https://api.example.com/v1/chat/completions", the primary returns "",
\* the fallback answers content "42", and "42" is returned.
C2_Witness ==
    /\ llm_pc = "done"
    /\ llm_binding = OPENAI
    /\ llm_arg_url = HTTPS \o API_EXAMPLE \o V1 \o CHAT_COMPLETIONS
    /\ llm_primary = <<[kind |-> "return", value |-> <<>>]>>
    /\ LlmFallbackHasContent
    /\ llm_outcome = [kind |-> "return", value |-> <<"4", "2">>]

\* C3: when the primary transport returns a non-empty string, llm_complete
\* returns exactly it, having invoked the primary once and issued no
\* fallback request.
C3_PrimarySuccessReturned ==
    /\ Len(llm_primary) <= 1
    /\ (/\ llm_primary # <<>>
        /\ llm_primary[1].kind = "return"
        /\ llm_primary[1].value \notin Falsy)
          => /\ llm_pc = "done"
             /\ llm_outcome = [kind |-> "return", value |-> llm_primary[1].value]
             /\ llm_posts = <<>>
             /\ llm_resp = <<>>

\* C3 witness: the primary returned "4" for an OpenAI-compatible binding
\* with a base_url, and "4" is the result.
C3_Witness ==
    /\ llm_pc = "done"
    /\ llm_binding = OPENAI
    /\ llm_arg_url = HTTPS \o API_EXAMPLE \o V1
    /\ llm_primary = <<[kind |-> "return", value |-> <<"4">>]>>
    /\ llm_outcome = [kind |-> "return", value |-> <<"4">>]
    /\ llm_posts = <<>>

\* The integer a Retry-After value of RetryAfterValues stands for, and the
\* exponential default 2^k for the values that are no integer.
ExpectedWait(k, retry_after) ==
    CASE retry_after = <<"1">> -> 1
      [] retry_after = <<"0">> -> 0
      [] retry_after = <<"1", "2">> -> 12
      [] retry_after = <<"-", "1">> -> 0 - 1
      [] retry_after = <<" ", "7">> -> 7
      [] OTHER -> CASE k = 0 -> 1 [] k = 1 -> 2 [] k = 2 -> 4 [] k = 3 -> 8 [] k = 4 -> 16
                    [] OTHER -> 2 ^ k

KgIs429(i) == kg_responses[i].kind = "http" /\ kg_responses[i].status = 429

\* C4: a 429 at attempt k (0-based) with retries remaining is followed by
\* one sleep of 2^k seconds, or of the Retry-After value when that parses
\* as an integer, and then by the same request again; the responses
\* [429, 429 with Retry-After: 1, 200] give the sleeps 1, 1 and the 200
\* payload.
C4_BackoffSchedule ==
    /\ \A i \in 1..Len(kg_responses) :
          (KgIs429(i) /\ i - 1 < kg_max_retries - 1)
             => /\ Len(kg_sleeps) >= i
                /\ kg_sleeps[i] = ExpectedWait(i - 1, kg_responses[i].retry_after)
                /\ (kg_pc # "sleep" \/ i < Len(kg_responses)) => Len(kg_requests) > i
    /\ \A i \in 1..Len(kg_requests) : kg_requests[i] = kg_requests[1]
    /\ (/\ kg_pc = "done"
        /\ Len(kg_responses) = 3
        /\ KgIs429(1) /\ kg_responses[1].retry_after = None
        /\ KgIs429(2) /\ kg_responses[2].retry_after = <<"1">>
        /\ kg_responses[3] = [kind |-> "http", status |-> 200, retry_after |-> None,
                              body |-> "json"])
          => /\ kg_sleeps = <<1, 1>>
             /\ kg_outcome = [kind |-> "return", value |-> 3]

\* C4 witness: the responses [429, 429 with Retry-After: 1, 200] under the
\* default max_retries, with a limit given.
C4_Witness ==
    /\ kg_pc = "done"
    /\ kg_max_retries = 3
    /\ kg_limit = {5}
    /\ Len(kg_responses) = 3
    /\ KgIs429(1) /\ kg_responses[1].retry_after = None
    /\ KgIs429(2) /\ kg_responses[2].retry_after = <<"1">>
    /\ kg_responses[3] = [kind |-> "http", status |-> 200, retry_after |-> None,
                          body |-> "json"]
    /\ kg_sleeps = <<1, 1>>
    /\ Len(kg_requests) = 3
    /\ kg_outcome.kind = "return"

\* C5: at most max_retries requests per call (3 by default); when every one
\* of the max_retries responses is a 429 the call raises RateLimitError;
\* and RateLimitError is raised only then: never while retries remain and
\* never for a response that is not a 429.
C5_RetryBudget ==
    /\ Len(kg_requests) <= kg_max_retries \/ kg_requests = <<>>
    /\ kg_max_retries = DEFAULT_MAX_RETRIES => Len(kg_requests) <= 3
    /\ (/\ kg_pc = "done"
        /\ kg_max_retries >= 1
        /\ Len(kg_responses) = kg_max_retries
        /\ \A i \in 1..Len(kg_responses) : KgIs429(i))
          => (kg_outcome.kind = "raise" /\ kg_outcome.type = "RateLimitError")
    /\ (kg_outcome.kind = "raise" /\ kg_outcome.type = "RateLimitError")
          => /\ Len(kg_responses) = kg_max_retries
             /\ Len(kg_requests) = kg_max_retries
             /\ \A i \in 1..Len(kg_responses) : KgIs429(i)

\* C5 witness: three 429 responses under max_retries = 3 end in RateLimitError.
C5_Witness ==
    /\ kg_pc = "done"
    /\ kg_max_retries = 3
    /\ Len(kg_requests) = 3
    /\ \A i \in 1..3 : KgIs429(i)
    /\ kg_outcome.kind = "raise"
    /\ kg_outcome.type = "RateLimitError"

\* Response number i is not a usable 200 and not a 429: another status, an
\* exception of the transport, or a 200 whose body cannot be parsed.
KgIsFailure(i) ==
    \/ kg_responses[i].kind = "exception"
    \/ kg_responses[i].status \notin {200, 429}
    \/ (kg_responses[i].status = 200 /\ kg_responses[i].body = "notjson")

KgRejected ==
    /\ kg_pc = "done"
    /\ kg_outcome.kind = "raise"
    /\ kg_outcome.type = "SearchError"
    /\ kg_outcome.detail \in {"empty_query", "query_too_long"}
    /\ kg_requests = <<>>
    /\ kg_sleeps = <<>>

\* The query passed validation and every request carries it trimmed.
KgAccepted(core) ==
    /\ ~(kg_outcome.kind = "raise"
         /\ kg_outcome.detail \in {"empty_query", "query_too_long"})
    /\ (kg_max_retries >= 1 => kg_requests # <<>>)
    /\ \A i \in 1..Len(kg_requests) : kg_requests[i].q = MakeQuery(0, core, 0)

C8_Idempotent == san_pc = "twice" => san_out2 = san_out

\* Response number i of fetch_models brought no model list.
FmNoModels(i) ==
    \/ fm_resps[i].kind = "exception"
    \/ fm_resps[i].status # 200
    \/ fm_resps[i].body.t \in {"notjson", "null"}
    \/ (fm_resps[i].body.t = "dict"
        /\ fm_resps[i].body.data.t # "list" /\ fm_resps[i].body.models.t # "list")

\* C9: fetch_models never raises: whatever the provider does in any
\* strategy, the call ends by returning a list, which is empty (never
\* null) when no strategy yields models.
C9_FetchModelsNeverRaises ==
    /\ fm_outcome.kind \in {"none", "return"}
    /\ fm_pc = "done"
          => /\ fm_outcome.kind = "return"
             /\ fm_outcome.value # None
             /\ (\A i \in 1..Len(fm_resps) : FmNoModels(i)) => fm_outcome.value = <<>>

\* C9 witness: the /api/tags probe raised, then /models answered a list
\* with a bare-string entry under "data", and [] was returned.
C9_Witness ==
    /\ fm_pc = "done"
    /\ Len(fm_resps) = 2
    /\ fm_resps[1].kind = "exception"
    /\ fm_resps[2].kind = "http"
    /\ fm_resps[2].status = 200
    /\ fm_resps[2].body = JDict(JList(<<[t |-> "str", s |-> <<"s">>]>>), JAbsent)
    /\ fm_outcome = [kind |-> "return", value |-> <<>>]

\* C10: get_completion_function is total and case-insensitive: the bindings
\* spelled anthropic or claude in any case resolve to the Anthropic
\* transport, every other binding to the OpenAI-compatible transport.
C10_DispatchTotal ==
    llm_fn # "unset"
       => llm_fn = IF llm_binding \in AnthropicSpellings
                   THEN "anthropic_complete"
                   ELSE "openai_complete_if_cache"

\* C10 witness: "CLAUDE" resolved to the Anthropic transport.
C10_Witness ==
    /\ llm_binding = <<"C", "L", "A", "U", "D", "E">>
    /\ llm_fn = "anthropic_complete"

\* The fallback POST was issued for this call.
LlmFallbackIssued == llm_posts # <<>>

\* C11 (as stated): fallback eligibility coincides with dispatch: for every
\* binding resolved to the OpenAI-compatible transport (every binding other
\* than anthropic/claude), a failed primary attempt with a base_url present
\* leads to the fallback POST; for anthropic/claude it is never issued.
C11_FallbackCoincidesWithDispatch ==
    /\ (/\ LlmPrimaryUnusable
        /\ llm_base_url \notin Falsy
        /\ llm_fn = "openai_complete_if_cache")
          => LlmFallbackIssued
    /\ llm_fn = "anthropic_complete" => ~LlmFallbackIssued


\* The base_url llm_complete is to work with: the sanitized one for a
\* non-empty base_url and an OpenAI-compatible transport, else the one given.
LlmExpectedBaseUrl ==
    IF llm_arg_url \notin Falsy /\ llm_binding \notin AnthropicSpellings
    THEN sanitize_url(llm_arg_url, <<"m">>)
    ELSE llm_arg_url

\* C12: llm_complete applies sanitize_url to base_url exactly when base_url
\* is non-empty and the resolved transport is OpenAI-compatible; for
\* anthropic/claude in any letter case the base_url reaches the transport
\* unchanged; and the value the primary transport received is the one the
\* fallback builds its URL from.
C12_SanitizedExactlyForOpenAI ==
    llm_pc # "start"
       => /\ llm_base_url = LlmExpectedBaseUrl
          /\ llm_binding \in AnthropicSpellings => llm_base_url = llm_arg_url
          /\ LlmFallbackIssued
                => llm_posts =
                      << IF EndsWith(LlmExpectedBaseUrl, CHAT_COMPLETIONS)
                         THEN LlmExpectedBaseUrl
                         ELSE LlmExpectedBaseUrl \o CHAT_COMPLETIONS >>

\* C12 witness: for "openai" the base_url "https://api.example.com/v1//"
\* was normalized to "https://api.example.com/v1" before the primary
\* transport ran, and the fallback POSTed below the normalized value.
C12_Witness ==
    /\ llm_pc = "done"
    /\ llm_binding = OPENAI
    /\ llm_arg_url = HTTPS \o API_EXAMPLE \o V1 \o <<"/", "/">>
    /\ llm_base_url = HTTPS \o API_EXAMPLE \o V1
    /\ llm_primary # <<>>
    /\ llm_posts = <<HTTPS \o API_EXAMPLE \o V1 \o CHAT_COMPLETIONS>>


\* base_url holds "ollama" / "ollama.com" in any letter case, or ":11434".
FmUrlNamesOllama == Contains(Lower(fm_base_url), OLLAMA)
FmUrlNamesCloud == Contains(Lower(fm_base_url), OLLAMA_COM)
FmUrlHasLocalPort == Contains(fm_base_url, PORT_11434)
FmBindingIsOllama == fm_binding \in {OLLAMA, <<"O", "l", "l", "a", "m", "a">>}

\* The first request is <root>/api/tags followed, if any request follows,
\* by <base_url>/models.
FmTagsFirst ==
    /\ fm_probes[1] = TagsUrl(fm_base_url)
    /\ Len(fm_probes) >= 2 => fm_probes[2] = ModelsUrl(fm_base_url)
    /\ (fm_pc = "done" /\ Len(fm_probes) = 1) => fm_outcome.kind = "return"

\* The first request is <base_url>/models.
FmModelsFirst == fm_probes[1] = ModelsUrl(fm_base_url)

\* C13 (as stated): /api/tags is probed before /models exactly when the
\* binding is "ollama", or base_url contains "ollama" and not "ollama.com",
\* or base_url contains port 11434; otherwise the first request is /models.
C13_AsStated ==
    fm_probes # <<>>
       => IF \/ FmBindingIsOllama
             \/ (FmUrlNamesOllama /\ ~FmUrlNamesCloud)
             \/ FmUrlHasLocalPort
          THEN FmTagsFirst
          ELSE FmModelsFirst

\* C13 (amended): /api/tags is probed before /models exactly when base_url
\* contains port 11434, or base_url does not contain "ollama.com" and either
\* the binding is "ollama" or base_url contains "ollama"; otherwise (so also
\* for binding "ollama" on an "ollama.com" base_url) the first request is
\* /models.
C13_LocalProbeFirst ==
    fm_probes # <<>>
       => IF \/ FmUrlHasLocalPort
             \/ (~FmUrlNamesCloud /\ (FmBindingIsOllama \/ FmUrlNamesOllama))
          THEN FmTagsFirst
          ELSE FmModelsFirst

\* C13 witness: binding "ollama" with base_url "https://ollama.com/v1": the
\* first request went to https://ollama.com/v1/models.
C13_Witness ==
    /\ fm_binding = OLLAMA
    /\ fm_arg_url = HTTPS \o OLLAMA_COM \o V1
    /\ fm_probes # <<>>
    /\ fm_probes[1] = HTTPS \o OLLAMA_COM \o V1 \o MODELS


\* The number of the response to the /models request: 2 after a /api/tags
\* probe, else 1.
FmModelsIndex == IF fm_probes[1] = ModelsUrl(fm_base_url) THEN 1 ELSE 2

\* The /models request has been answered and brought no model: a transport
\* error, a non-200 status, an unrecognized envelope, or a recognized
\* envelope with an empty list.
FmModelsProducedNothing ==
    /\ Len(fm_resps) >= FmModelsIndex
    /\ LET r == fm_resps[FmModelsIndex]
       IN  \/ r.kind = "exception"
           \/ r.status # 200
           \/ r.body.t \in {"notjson", "null"}
           \/ (r.body.t = "list" /\ r.body.items = <<>>)
           \/ (r.body.t = "dict" /\ r.body.data.t # "list" /\ r.body.models.t # "list")
           \/ (r.body.t = "dict" /\ r.body.data.t = "list" /\ r.body.data.items = <<>>)
           \/ (r.body.t = "dict" /\ r.body.data.t # "list" /\ r.body.models.t = "list"
               /\ r.body.models.items = <<>>)

\* C14 (as stated): on a base_url containing "ollama.com", when the /models
\* probe produced nothing, /api/tags is probed against that host as a last
\* resort before fetch_models returns.
C14_CloudLastResort ==
    (/\ fm_pc = "done"
     /\ Contains(fm_base_url, OLLAMA_COM)
     /\ fm_probes # <<>>
     /\ FmModelsProducedNothing)
       => /\ Len(fm_probes) = FmModelsIndex + 1
          /\ fm_probes[Len(fm_probes)] = TagsUrl(fm_base_url)


\* The identifiers a list of entries yields when every entry is handled on
\* its own: a dict entry its id, else its name, and nothing when it has
\* neither; a bare string itself.
RECURSIVE EntryWiseIds(_)
EntryWiseIds(entries) ==
    IF entries = <<>> THEN <<>>
    ELSE LET m == Head(entries)
             own == IF m.t = "str" THEN <<m.s>>
                    ELSE IF m.id \notin Falsy THEN <<m.id>>
                    ELSE IF m.name \notin Falsy THEN <<m.name>>
                    ELSE <<>>
         IN  own \o EntryWiseIds(Tail(entries))

\* The list an accepted envelope carries: under "data", else under
\* "models", else the body itself.
EnvelopeEntries(body) ==
    IF body.t = "list" THEN body.items
    ELSE IF body.data.t = "list" THEN body.data.items
    ELSE body.models.items

IsAcceptedEnvelope(body) ==
    \/ body.t = "list"
    \/ (body.t = "dict" /\ (body.data.t = "list" \/ body.models.t = "list"))

\* C15 (as stated): for a 200 response from /models in one of the three
\* accepted envelopes, fetch_models returns, in order and without
\* deduplication, one identifier per entry, each entry handled
\* independently of the others.
C15_EntryWiseIdentifiers ==
    (/\ fm_pc = "done"
     /\ fm_probes # <<>>
     /\ Len(fm_resps) = FmModelsIndex
     /\ fm_resps[FmModelsIndex].kind = "http"
     /\ fm_resps[FmModelsIndex].status = 200
     /\ IsAcceptedEnvelope(fm_resps[FmModelsIndex].body))
       => fm_outcome =
             [kind |-> "return",
              value |-> EntryWiseIds(EnvelopeEntries(fm_resps[FmModelsIndex].body))]


\* The fallback answered 200 with a choices[0].message object.
LlmFallbackHasMessage ==
    /\ llm_resp # <<>>
    /\ llm_resp[1].kind = "http"
    /\ llm_resp[1].status = 200
    /\ llm_resp[1].body.shape = "message"

\* C16: on a 200 fallback response llm_complete returns the first non-empty
\* value among message.content, reasoning_content, reasoning, thought, in
\* that order; a lower-priority field is never returned when a
\* higher-priority one is non-empty.
C16_FirstNonEmptyField ==
    (llm_pc = "done" /\ LlmFallbackHasMessage)
       => LET msg == llm_resp[1].body.msg
          IN  /\ msg.content \notin Falsy
                    => llm_outcome = [kind |-> "return", value |-> msg.content]
              /\ (msg.content \in Falsy /\ msg.reasoning_content \notin Falsy)
                    => llm_outcome = [kind |-> "return", value |-> msg.reasoning_content]
              /\ (/\ msg.content \in Falsy /\ msg.reasoning_content \in Falsy
                  /\ msg.reasoning \notin Falsy)
                    => llm_outcome = [kind |-> "return", value |-> msg.reasoning]
              /\ (/\ msg.content \in Falsy /\ msg.reasoning_content \in Falsy
                  /\ msg.reasoning \in Falsy /\ msg.thought \notin Falsy)
                    => llm_outcome = [kind |-> "return", value |-> msg.thought]

\* C16 witness: content "" with reasoning_content "X" (and a reasoning
\* field as well) returned "X".
C16_Witness ==
    /\ llm_pc = "done"
    /\ LlmFallbackHasMessage
    /\ llm_resp[1].body.msg.content = <<>>
    /\ llm_resp[1].body.msg.reasoning_content = <<"X">>
    /\ llm_resp[1].body.msg.reasoning = <<"r">>
    /\ llm_outcome = [kind |-> "return", value |-> <<"X">>]


\* C17 (as stated): for every input the output of sanitize_url has no
\* trailing slash and ends with none of /chat/completions, /completions,
\* /messages, /embeddings, stacked suffixes included.
C17_NoSuffixLeft ==
    (san_pc \in {"once", "twice"} /\ san_out # None)
       => /\ ~EndsWith(san_out, SLASH)
          /\ \A i \in 1..Len(SanitizeSuffixes) : ~EndsWith(san_out, SanitizeSuffixes[i])

\* The part of C17 that the code keeps: the output has no trailing slash.
C17_NoTrailingSlash ==
    (san_pc \in {"once", "twice"} /\ san_out # None) => ~EndsWith(san_out, SLASH)


\* The input names a local Ollama: it holds port 11434, or "ollama" (in any
\* letter case) and not "ollama.com".
SanInputIsLocalOllama ==
    \/ Contains(san_in, PORT_11434)
    \/ (Contains(Lower(san_in), OLLAMA) /\ ~Contains(Lower(san_in), OLLAMA_COM))

\* The input without its trailing slashes, with http:// in front when it
\* has no scheme, and without the suffix(es) the loop strips.
SanSchemedAndStripped ==
    LET r == RStrip(san_in, SLASH)
        lacks == r # <<>> /\ ~StartsWith(r, HTTP) /\ ~StartsWith(r, HTTPS)
    IN  StripSuffixes(IF lacks THEN HTTP \o r ELSE r, 1)

FmRootByTrailingV1 ==
    IF EndsWith(fm_base_url, V1)
    THEN SubSeq(fm_base_url, 1, Len(fm_base_url) - Len(V1))
    ELSE fm_base_url

\* C19 (as stated): the /api/tags probe URL is the base_url with only a
\* trailing /v1 segment removed, followed by /api/tags; every other part of
\* the URL, a /v1 that is not the trailing segment included, is left intact.
C19_OnlyTrailingV1Removed ==
    \A i \in 1..Len(fm_probes) :
        EndsWith(fm_probes[i], API_TAGS) => fm_probes[i] = FmRootByTrailingV1 \o API_TAGS


\* Some request of this fetch_models call raised or answered non-200.
FmSawFailure ==
    \E i \in 1..Len(fm_resps) :
        fm_resps[i].kind = "exception" \/ fm_resps[i].status # 200

\* C20 (as stated): no failure is silently converted into an empty success:
\* when a transport exception or a non-200 response ends in fetch_models
\* returning an empty list, or in llm_complete switching to the fallback, a
\* diagnostic message has been emitted during that call before it returns.
C20_NoSilentEmptySuccess ==
    /\ (/\ fm_pc = "done"
        /\ FmSawFailure
        /\ fm_outcome = [kind |-> "return", value |-> <<>>])
          => fm_diag # <<>>
    /\ (LlmPrimaryUnusable /\ LlmFallbackIssued)
          => \E i \in 1..Len(llm_diag) : llm_diag[i] = "fallback"

\* The half of C20 that the code keeps: the switch to the fallback is
\* always announced.
C20_FallbackAnnounced ==
    LlmFallbackIssued => \E i \in 1..Len(llm_diag) : llm_diag[i] = "fallback"

(***************************************************************************)
(* Credentials and the Anthropic transport                                 *)
(***************************************************************************)
AnDone == an_pc = "done"

AnMissingCredentialError ==
    /\ an_outcome.kind = "raise"
    /\ an_outcome.type = "ValueError"
    /\ an_outcome.detail = "api_key_missing"

\* C23: credentials come only from the caller: with api_key absent (None or
\* empty) anthropic_complete ends with the missing-credential error and has
\* issued no request, whatever the environment holds.
C23_NoEnvironmentCredential ==
    (AnDone /\ ~Truthy(an_api_key)) => (AnMissingCredentialError /\ an_posts = <<>>)

AnLastResponse == an_resp[Len(an_resp)]

AnApiErrorWithStatus ==
    /\ an_outcome.kind = "raise"
    /\ an_outcome.type = "Exception"
    /\ an_outcome.status = AnLastResponse.status
    /\ an_outcome.detail = "response_text"

AnReturnsFirstBlockText ==
    /\ an_outcome.kind = "return"
    /\ an_outcome.value = AnLastResponse.body.text

AnAnswered == AnDone /\ an_resp # <<>> /\ AnLastResponse.kind = "http"

\* The statement of C26 as worded: every 2xx response with a first content block
\* yields its text, and every call issues exactly one POST.
C26_AsStated ==
    AnDone =>
        /\ Len(an_posts) = 1
        /\ (AnAnswered /\ (AnLastResponse.status < 200 \/ AnLastResponse.status > 299))
              => AnApiErrorWithStatus
        /\ (AnAnswered /\ AnLastResponse.status >= 200 /\ AnLastResponse.status <= 299
                /\ AnLastResponse.body.shape = "text")
              => AnReturnsFirstBlockText

\* C26: anthropic_complete raises the API error carrying the status code and the
\* response body for every response status other than 200 (every non-2xx status,
\* and the 2xx statuses other than 200 as well); for a 200 response whose body
\* has a first content block with a text it returns that text; it issues at most
\* one POST per call: exactly one when a credential is available (the api_key
\* argument or else the environment's), none when it is missing.
C26_ApiErrorUnless200 ==
    AnDone =>
        /\ Len(an_posts) <= 1
        /\ Len(an_posts) = Len(an_resp)
        /\ (Len(an_posts) = 1) <=> (Truthy(an_api_key) \/ Truthy(an_env_key))
        /\ (an_posts = <<>>) => AnMissingCredentialError
        /\ (AnAnswered /\ AnLastResponse.status # 200) => AnApiErrorWithStatus
        /\ (AnAnswered /\ AnLastResponse.status = 200 /\ AnLastResponse.body.shape = "text")
              => AnReturnsFirstBlockText

C26_Witness ==
    /\ AnAnswered
    /\ AnLastResponse.status = 201
    /\ AnLastResponse.body.shape = "text"
    /\ AnApiErrorWithStatus
    /\ Len(an_posts) = 1

(***************************************************************************)
(* The Baidu client                                                        *)
(***************************************************************************)
BdDone == bd_pc = "done"

BdLastResponse == bd_resp[Len(bd_resp)]

BdAnswered == BdDone /\ bd_resp # <<>> /\ BdLastResponse.kind = "http"

\* C27: BaiduAISearch.search issues exactly one POST per call whatever the
\* response (429 included) and carries the query unvalidated; a successful
\* response returns its parsed body, and a non-2xx response raises an error that
\* carries the status code, with the provider's parsed message when the body has
\* one.
C27_OnePostAndStatusError ==
    BdDone =>
        /\ Len(bd_posts) = 1
        /\ bd_posts[1].content = bd_query
        /\ (BdAnswered /\ BdLastResponse.status = 200
                /\ BdLastResponse.body \in {"json_msg", "json_nomsg", "json_list"})
              => bd_outcome = [kind |-> "return", value |-> BdLastResponse.body]
        /\ (BdAnswered /\ (BdLastResponse.status < 200 \/ BdLastResponse.status > 299))
              => /\ bd_outcome.kind = "raise"
                 /\ bd_outcome.status = BdLastResponse.status
                 /\ (BdLastResponse.body = "json_msg") => bd_outcome.detail = "error_msg"

\* What does hold of every call: one POST, never a second one, with the query as
\* given.
C27_OnePostNoRetry ==
    BdDone => (Len(bd_posts) = 1 /\ Len(bd_resp) = 1 /\ bd_posts[1].content = bd_query)

(***************************************************************************)
(* The standardized Kagi result                                            *)
(***************************************************************************)
StdDone == std_pc = "done"

StdData == IF std_response.data = {} THEN <<>> ELSE CHOOSE d \in std_response.data : TRUE

StdResultRecords == SelectSeq(StdData, LAMBDA item : item.t = {0})

FieldOrEmpty(item, key) == IF item[key] = Absent THEN <<>> ELSE item[key]

BracketedIndex(i) == <<"[", <<"1", "2", "3", "4", "5", "6", "7", "8", "9">>[i], "]">>

\* C28: search_results and citations hold exactly the type-0 records of data in
\* their order; citation i has id i and reference "[i]"; a missing title, url,
\* snippet or published field reads as the empty string; a citation has a
\* thumbnail only when its record has one, and then the record's.
C28_ResultsAreTypeZeroRecords ==
    StdDone =>
        LET recs == StdResultRecords
            results == std_result.search_results
            cites == std_result.citations
        IN  /\ Len(results) = Len(recs)
            /\ Len(cites) = Len(recs)
            /\ \A i \in 1..Len(recs) :
                /\ results[i] = [ title |-> FieldOrEmpty(recs[i], "title"),
                                  url |-> FieldOrEmpty(recs[i], "url"),
                                  snippet |-> FieldOrEmpty(recs[i], "snippet"),
                                  date |-> FieldOrEmpty(recs[i], "published") ]
                /\ cites[i].id = i
                /\ cites[i].reference = BracketedIndex(i)
                /\ cites[i].title = results[i].title
                /\ cites[i].url = results[i].url
                /\ cites[i].snippet = results[i].snippet
                /\ cites[i].date = results[i].date
                /\ (cites[i].thumbnail # Absent)
                      => (recs[i].thumbnail # Absent /\ cites[i].thumbnail = recs[i].thumbnail)

C28_Witness ==
    /\ StdDone
    /\ Len(StdData) = 4
    /\ StdData[1].t = {1}
    /\ StdData[2].t = {0} /\ StdData[2].thumbnail = <<"i">>
    /\ StdData[3].t = {}
    /\ StdData[4].t = {0} /\ StdData[4].title = Absent /\ StdData[4].thumbnail = Absent
    /\ Len(std_result.citations) = 2
    /\ std_result.citations[1].thumbnail = <<"i">>
    /\ std_result.citations[2].id = 2
    /\ std_result.citations[2].title = <<>>
    /\ std_result.citations[2].thumbnail = Absent

RECURSIVE RelatedQueriesOf(_)
RelatedQueriesOf(data) ==
    IF data = <<>> THEN <<>>
    ELSE (IF Head(data).t = {1} /\ Head(data).list # Absent THEN Head(data).list ELSE <<>>)
         \o RelatedQueriesOf(Tail(data))

StdFirstThreeSnippets ==
    LET results == std_result.search_results
        three == SubSeq(results, 1, IF Len(results) < 3 THEN Len(results) ELSE 3)
    IN  SelectSeq([i \in 1..Len(three) |-> three[i].snippet], LAMBDA s : s # <<>>)

\* C29: related_searches is present exactly when the lists of the type-1 records,
\* concatenated in order, hold a query, and is then that concatenation; answer
\* equals response.content and is the non-empty snippets of the first three
\* search results joined by single spaces, the empty string when there are none.
C29_RelatedAndAnswer ==
    StdDone =>
        LET related == RelatedQueriesOf(StdData)
            s == StdFirstThreeSnippets
        IN  /\ (std_result.related_searches # {}) <=> (related # <<>>)
            /\ (related # <<>>) => std_result.related_searches = {related}
            /\ std_result.answer = std_result.content
            /\ std_result.answer =
                  CASE Len(s) = 0 -> <<>>
                    [] Len(s) = 1 -> s[1]
                    [] Len(s) = 2 -> s[1] \o <<" ">> \o s[2]
                    [] Len(s) = 3 -> s[1] \o <<" ">> \o s[2] \o <<" ">> \o s[3]
            /\ (std_result.search_results = <<>>) => std_result.answer = <<>>

C29_Witness ==
    /\ StdDone
    /\ Len(std_result.search_results) = 4
    /\ std_result.search_results[2].snippet = <<>>
    /\ std_result.search_results[4].snippet = <<"b">>
    /\ std_result.answer = <<"a", " ", "b">>
    /\ std_result.related_searches = {}

(***************************************************************************)
(* Kagi errors and the empty query                                         *)
(***************************************************************************)
KgLastResponse == kg_responses[Len(kg_responses)]

KgEndedOnErrorStatus ==
    /\ kg_pc = "done"
    /\ kg_responses # <<>>
    /\ KgLastResponse.kind = "http"
    /\ KgLastResponse.status # 200

\* C25: a call that ends on a non-200 response raises an error whose message
\* carries that response's status code, together with error[0].msg when the body
\* is JSON with that field and with the raw response text when the body is not
\* valid JSON.
C25_ErrorCarriesStatusAndMessage ==
    KgEndedOnErrorStatus =>
        /\ kg_outcome.kind = "raise"
        /\ kg_outcome.status = KgLastResponse.status
        /\ (KgLastResponse.status # 429 /\ KgLastResponse.body = "json_msg")
              => kg_outcome.detail = "error_msg"
        /\ (KgLastResponse.status # 429 /\ KgLastResponse.body = "notjson")
              => kg_outcome.detail = "response_text"

\* What does hold: the status and the provider's message are carried whenever
\* the error body is empty or a JSON object whose error list is missing or has a
\* first entry.
C25_StatusCarriedForParsedBodies ==
    (KgEndedOnErrorStatus /\ KgLastResponse.status # 429
        /\ KgLastResponse.body \in {"empty", "json_msg", "json_nomsg"})
       => /\ kg_outcome.kind = "raise"
          /\ kg_outcome.type = "SearchError"
          /\ kg_outcome.status = KgLastResponse.status
          /\ kg_outcome.detail =
                IF KgLastResponse.body = "json_msg" THEN "error_msg" ELSE "response_text"

KgEmptyQueryCall == kg_pc = "done" /\ kg_query = <<>>

WsDone == ws_pc = "done"

WsKagiClientRaised == WsDone /\ kg_pc = "done" /\ kg_outcome.kind = "raise"

WsBaiduClientRaised == WsDone /\ bd_pc = "done" /\ bd_outcome.kind = "raise"

WsKagiTransportFailed ==
    /\ WsDone
    /\ kg_responses # <<>>
    /\ kg_responses[Len(kg_responses)].kind = "exception"

WsKagiKeyMissing ==
    /\ WsDone
    /\ kg_pc = "idle"
    /\ bd_pc = "idle"
    /\ ~Truthy(ws_kagi_key)
    /\ (ws_entry = "_search_with_kagi" \/ Lower(Or(ws_provider, <<"x">>)) = <<"k", "a", "g", "i">>)

\* C24: an error raised by a search client reaches the caller of web_search or
\* _search_with_kagi as it was raised, class included: RateLimitError stays
\* RateLimitError, SearchError stays SearchError, a transport exception keeps
\* its own class, and the missing-credential error stays a ValueError.
C24_ErrorsReachCallerVerbatim ==
    /\ WsKagiClientRaised => ws_outcome = kg_outcome
    /\ WsBaiduClientRaised => ws_outcome = bd_outcome
    /\ WsKagiTransportFailed
          => (ws_outcome.kind = "raise"
              /\ ws_outcome.type \notin {"Exception", "SearchError", "RateLimitError"})
    /\ WsKagiKeyMissing => (ws_outcome.kind = "raise" /\ ws_outcome.type = "ValueError")

\* What does hold: called directly, _search_with_kagi passes the client's
\* RateLimitError and SearchError and its own ValueError on unchanged, while
\* every error leaving web_search is a plain Exception.
C24_OnlyDirectEntryKeepsClass ==
    /\ (ws_entry = "_search_with_kagi" /\ WsKagiClientRaised) => ws_outcome = kg_outcome
    /\ (ws_entry = "_search_with_kagi" /\ WsKagiKeyMissing)
          => (ws_outcome.kind = "raise" /\ ws_outcome.type = "ValueError")
    /\ (ws_entry = "web_search" /\ WsDone /\ ws_outcome.kind = "raise")
          => ws_outcome.type = "Exception"

(***************************************************************************)
(* Concurrent calls                                                        *)
(***************************************************************************)
CcFresh(c) ==
    [c EXCEPT !.pc = "start", !.attempt = 0, !.requests = <<>>, !.responses = <<>>,
              !.sleeps = <<>>, !.outcome = [kind |-> "none"]]

\* The call c run with no other call in flight, fed the given responses.
RECURSIVE CcRunAlone(_, _, _)
CcRunAlone(c, headers, inputs) ==
    IF c.pc = "done" THEN c
    ELSE IF c.pc \in {"request", "primary", "fallback"}
    THEN IF inputs = <<>> THEN c
         ELSE CcRunAlone(IF c.kind = "kagi" THEN KagiSearchStep(c, headers, Head(inputs))
                         ELSE LlmCompleteStep(c, Head(inputs)),
                         headers, Tail(inputs))
    ELSE CcRunAlone(IF c.kind = "kagi" THEN KagiSearchStep(c, headers, [kind |-> "none"])
                    ELSE LlmCompleteStep(c, [kind |-> "none"]),
                    headers, inputs)

CcRateLimitResponses(c) ==
    Len(SelectSeq(c.responses, LAMBDA r : r.kind = "http" /\ r.status = 429))

C22_ClientsClosed ==
    /\ an_open \in {0, 1}
    /\ llm_open \in {0, 1}
    /\ fm_open \in {0, 1}
    /\ kg_open \in {0, 1}
    /\ bd_open \in {0, 1}
    /\ an_pc \in {"idle", "start", "done"} => an_open = 0
    /\ llm_pc \in {"idle", "start", "primary", "done"} => llm_open = 0
    /\ fm_pc \in {"idle", "start", "done"} => fm_open = 0
    /\ kg_pc \in {"idle", "start", "done"} => kg_open = 0
    /\ bd_pc \in {"idle", "start", "done"} => bd_open = 0

C22_Witness ==
    /\ kg_pc = "done"
    /\ Len(kg_requests) = 3
    /\ Len(kg_sleeps) = 2
    /\ kg_outcome.kind = "raise"
    /\ kg_open = 0

(***************************************************************************)
(* The course of an llm_complete call                                      *)
(***************************************************************************)
\* The transport invocations made so far: primary calls and fallback POSTs.
LlmInvocations == Len(llm_primary) + Len(llm_posts)

LlmShape ==
    /\ Len(llm_primary) <= 1
    /\ Len(llm_posts) <= 1
    /\ llm_pc \in {"fallback", "done"} => Len(llm_primary) = 1
    /\ llm_posts # <<>> => LlmPrimaryUnusable
    /\ llm_pc = "done" => llm_outcome.kind \in {"return", "raise"}
    /\ LlmInvocations <= 2

LlmOrder ==
    /\ llm_pc' # llm_pc
          => <<llm_pc, llm_pc'>> \in { <<"start", "primary">>, <<"primary", "done">>,
                                       <<"primary", "fallback">>, <<"fallback", "done">> }
    /\ llm_posts # <<>> => llm_primary' = llm_primary
    /\ llm_pc = "done" => UNCHANGED <<llm_primary, llm_posts, llm_outcome>>

\* C31: a call goes NORMALIZE, PRIMARY_ATTEMPT, then SUCCESS or
\* FALLBACK_ATTEMPT, then SUCCESS or FAILURE: the primary transport is invoked
\* exactly once, the fallback POST at most once and only after the primary
\* attempt failed, the primary never again after a fallback, and when every
\* transport invocation completes the call ends, returning or raising, after at
\* most two invocations.
C31_CallLifecycle ==
    /\ []LlmShape
    /\ [][LlmOrder]_vars
    /\ <>(llm_pc = "done")

\* The safety part of C31 on every input of SpecLlm.
C31_ShapeAndOrderOnAllInputs == []LlmShape /\ [][LlmOrder]_vars

C31_Witness ==
    /\ llm_pc = "done"
    /\ Len(llm_primary) = 1
    /\ llm_primary[1].kind = "raise"
    /\ Len(llm_posts) = 1
    /\ llm_resp # <<>>
    /\ llm_resp[1].kind = "http"
    /\ llm_resp[1].status = 500
    /\ llm_outcome.kind = "raise"
    /\ LlmInvocations = 2

\* The counts of requests, responses and sleeps of a call, by its position.
KgSleepsBetweenRequests ==
    /\ Len(kg_responses) <= Len(kg_requests)
    /\ Len(kg_sleeps) <= Len(kg_responses)
    /\ Len(kg_requests) <= Len(kg_sleeps) + 1
    /\ \A i \in 1..Len(kg_sleeps) : KgIs429(i)
    /\ kg_pc = "request"
          => /\ Len(kg_responses) = Len(kg_requests) - 1
             /\ Len(kg_sleeps) = Len(kg_requests) - 1
    /\ kg_pc = "sleep"
          => /\ Len(kg_responses) = Len(kg_requests)
             /\ Len(kg_sleeps) = Len(kg_requests)
             /\ Len(kg_requests) < kg_max_retries
    /\ kg_pc = "done"
          => /\ Len(kg_responses) = Len(kg_requests)
             /\ IF kg_requests = <<>> THEN kg_sleeps = <<>>
                ELSE Len(kg_sleeps) = Len(kg_requests) - 1
    /\ (kg_outcome.kind = "raise" /\ kg_outcome.type = "RateLimitError")
          => /\ KgIs429(Len(kg_responses))
             /\ Len(kg_sleeps) = Len(kg_responses) - 1
    /\ \A i \in 1..Len(kg_responses) :
          (kg_responses[i].kind = "http" /\ kg_responses[i].status = 200)
             => /\ i = Len(kg_responses)
                /\ Len(kg_requests) = i
                /\ kg_pc = "done"
                /\ kg_responses[i].body = "json"
                      => kg_outcome = [kind |-> "return", value |-> i]

\* A sleep starts in the step that receives a 429, and the step that ends it
\* issues the next request.
KgSleepStep ==
    /\ kg_sleeps' # kg_sleeps
          => /\ kg_pc = "request"
             /\ kg_pc' = "sleep"
             /\ Len(kg_sleeps') = Len(kg_sleeps) + 1
             /\ Len(kg_responses') = Len(kg_responses) + 1
             /\ kg_responses'[Len(kg_responses')].kind = "http"
             /\ kg_responses'[Len(kg_responses')].status = 429
             /\ kg_requests' = kg_requests
    /\ kg_pc = "sleep" /\ kg_pc' # kg_pc
          => /\ kg_pc' = "request"
             /\ Len(kg_requests') = Len(kg_requests) + 1
             /\ kg_sleeps' = kg_sleeps
             /\ kg_responses' = kg_responses
    /\ kg_pc = "done" => UNCHANGED <<kg_requests, kg_responses, kg_sleeps, kg_outcome>>

\* C32: a backoff sleep happens only between two requests: a call that
\* issues n >= 1 requests performs exactly n - 1 sleeps, each immediately
\* after a 429 and before the next request; there is no sleep after the final
\* 429 before RateLimitError is raised, and no request after a 200, whose
\* parsed body is the return value.
C32_SleepOnlyBetweenRequests == []KgSleepsBetweenRequests /\ [][KgSleepStep]_vars

\* C32 witness: a 429 answered by one sleep and a second request, whose 200 is
\* returned; two requests, one sleep.
C32_Witness ==
    /\ kg_pc = "done"
    /\ kg_max_retries = 2
    /\ Len(kg_requests) = 2
    /\ Len(kg_sleeps) = 1
    /\ KgIs429(1)
    /\ kg_responses[2].kind = "http" /\ kg_responses[2].status = 200
    /\ kg_outcome = [kind |-> "return", value |-> 2]

\* The call began with the strategy-1 probe and that probe has been answered.
FmTagsAnswered ==
    /\ fm_pc \in {"models", "cloud_tags", "done"}
    /\ fm_probes # <<>>
    /\ EndsWith(fm_probes[1], API_TAGS)
    /\ fm_resps # <<>>

\* The strategy-1 response is a 200 whose body is an object with a models key.
FmTagsHasModelsKey ==
    /\ fm_resps[1].kind = "http"
    /\ fm_resps[1].status = 200
    /\ fm_resps[1].body.t = "dict"
    /\ fm_resps[1].body.models.t # "absent"

\* Reading the names raises: models is not a list, or an entry has no name.
FmTagsNamesRaise ==
    \/ fm_resps[1].body.models.t # "list"
    \/ \E i \in 1..Len(fm_resps[1].body.models.items) :
          \/ fm_resps[1].body.models.items[i].t # "dict"
          \/ fm_resps[1].body.models.items[i].name = Absent

\* C33: when the strategy-1 /api/tags probe returns 200 with a models key the
\* names are returned at once, an empty list included, and /models is never
\* probed; when it returns another status, a body without a models key, or
\* raises (an entry without a name included), the /models probe follows.
C33_TagsProbeDecides ==
    FmTagsAnswered =>
        IF FmTagsHasModelsKey /\ ~FmTagsNamesRaise
        THEN /\ fm_pc = "done"
             /\ Len(fm_probes) = 1
             /\ Len(fm_resps) = 1
             /\ fm_outcome.kind = "return"
             /\ Len(fm_outcome.value) = Len(fm_resps[1].body.models.items)
             /\ \A i \in 1..Len(fm_outcome.value) :
                   fm_outcome.value[i] = fm_resps[1].body.models.items[i].name
        ELSE /\ Len(fm_probes) >= 2
             /\ fm_probes[2] = RStrip(fm_arg_url, SLASH) \o MODELS

\* C33 witness: a 200 with "models": [] returns the empty list after one probe.
C33_Witness ==
    /\ FmTagsAnswered
    /\ fm_resps[1] = [kind |-> "http", status |-> 200, body |-> JDict(JAbsent, JList(<<>>))]
    /\ fm_pc = "done"
    /\ fm_probes = <<fm_probes[1]>>
    /\ fm_outcome = [kind |-> "return", value |-> <<>>]

\* C33, the other side: an entry without a name makes the probe raise, and the
\* /models probe follows.
C33_WitnessFallsThrough ==
    /\ FmTagsAnswered
    /\ FmTagsHasModelsKey
    /\ FmTagsNamesRaise
    /\ Len(fm_probes) >= 2

\* C34: every fallback POST goes to a URL that ends in /chat/completions and
\* not in /chat/completions/chat/completions, whatever base_url the caller
\* gave. Violated: see C34_SuffixNeverAppendedTwice for what the code keeps.
C34_ExactlyOneSuffix ==
    \A i \in 1..Len(llm_posts) :
        /\ EndsWith(llm_posts[i], CHAT_COMPLETIONS)
        /\ ~EndsWith(llm_posts[i], CHAT_COMPLETIONS \o CHAT_COMPLETIONS)

\* The part of C34 that the code keeps: the fallback URL ends in
\* /chat/completions, it is the normalized base_url itself when that already
\* ends so and the normalized base_url plus the suffix otherwise, and the
\* fallback never appends the suffix to a URL that already carries it.
C34_SuffixNeverAppendedTwice ==
    \A i \in 1..Len(llm_posts) :
        LET url == RStrip(llm_base_url, SLASH)
        IN  /\ EndsWith(llm_posts[i], CHAT_COMPLETIONS)
            /\ llm_posts[i] = IF EndsWith(url, CHAT_COMPLETIONS) THEN url
                              ELSE url \o CHAT_COMPLETIONS
            /\ EndsWith(llm_posts[i], CHAT_COMPLETIONS \o CHAT_COMPLETIONS)
                  => Contains(llm_arg_url, CHAT_COMPLETIONS \o CHAT_COMPLETIONS)

\* The query passes validation: its length after trimming is 1..max_length.
KgValidQuery ==
    \E l \in PadLengths, c \in CoreLengths, t \in PadLengths :
        c >= 1 /\ c <= max_length /\ kg_query = MakeQuery(l, c, t)

\* C35: for a valid query, max_retries < 1 issues no request and raises a
\* generic SearchError, not RateLimitError; with max_retries = 1 a single 429
\* raises RateLimitError with no sleep.
C35_DegenerateRetryBudgets ==
    /\ (KgValidQuery /\ kg_max_retries < 1 /\ kg_pc \notin {"idle", "start"})
          => /\ kg_pc = "done"
             /\ kg_requests = <<>>
             /\ kg_responses = <<>>
             /\ kg_sleeps = <<>>
             /\ kg_outcome.kind = "raise"
             /\ kg_outcome.type = "SearchError"
             /\ kg_outcome.detail = "unknown_after_retries"
    /\ (KgValidQuery /\ kg_max_retries = 1 /\ kg_responses # <<>> /\ KgIs429(1))
          => /\ kg_pc = "done"
             /\ Len(kg_requests) = 1
             /\ Len(kg_responses) = 1
             /\ kg_sleeps = <<>>
             /\ kg_outcome.kind = "raise"
             /\ kg_outcome.type = "RateLimitError"

\* C35 witness: max_retries = 1 and one 429.
C35_Witness ==
    /\ KgValidQuery
    /\ kg_max_retries = 1
    /\ kg_pc = "done"
    /\ Len(kg_responses) = 1
    /\ KgIs429(1)
    /\ kg_sleeps = <<>>
    /\ kg_outcome.type = "RateLimitError"

\* C35, the other case: a negative max_retries ends the call before any request.
C35_WitnessNoRequest ==
    /\ KgValidQuery
    /\ kg_max_retries = -1
    /\ kg_pc = "done"
    /\ kg_requests = <<>>
    /\ kg_outcome.kind = "raise"
    /\ kg_outcome.type = "SearchError"

\* One session per call, one GET in flight at a time, three GETs at most.
FmSequential ==
    /\ fm_open \in {0, 1}
    /\ Len(fm_probes) <= 3
    /\ fm_pc \in {"tags", "models", "cloud_tags"}
          => (fm_open = 1 /\ Len(fm_probes) = Len(fm_resps) + 1)
    /\ fm_pc \in {"idle", "start", "done"}
          => (fm_open = 0 /\ Len(fm_probes) = Len(fm_resps))

\* C36 (as stated): the probes of a call are sequential within one session,
\* at most three, and no URL is requested twice.
C36_AsStated ==
    /\ FmSequential
    /\ \A i, j \in 1..Len(fm_probes) : i # j => fm_probes[i] # fm_probes[j]

\* C36 (amended): the probes are sequential within one session and at most
\* three; a call with one or two probes never requests a URL twice; a third
\* probe is issued only for a base_url that holds both ":11434" and
\* "ollama.com", and it requests the /api/tags URL of the first probe again.
C36_SequentialProbes ==
    /\ FmSequential
    /\ \A i, j \in 1..Len(fm_probes) :
          (i < j /\ fm_probes[i] = fm_probes[j]) => (i = 1 /\ j = 3)
    /\ Len(fm_probes) = 3
          => /\ Contains(fm_base_url, PORT_11434)
             /\ Contains(fm_base_url, OLLAMA_COM)
             /\ EndsWith(fm_probes[1], API_TAGS)
             /\ EndsWith(fm_probes[2], MODELS)
             /\ fm_probes[3] = fm_probes[1]

\* C36 witness: three probes with their three answers, the third URL being
\* the first.
C36_Witness ==
    /\ fm_pc = "done"
    /\ Len(fm_probes) = 3
    /\ Len(fm_resps) = 3
    /\ fm_probes[3] = fm_probes[1]
    /\ fm_probes[2] # fm_probes[1]
    /\ fm_open = 0

\* The Retry-After header of response number i is an integer with a minus sign.
KgHeaderIsNegative(i) ==
    LET ra == kg_responses[i].retry_after
    IN  ra # None /\ \E k \in 1..Len(ra) :
            /\ ra[k] = "-"
            /\ \A j \in 1..(k - 1) : ra[j] = " "
            /\ k < Len(ra)
            /\ \A j \in (k + 1)..Len(ra) : ra[j] \in Digits

\* C37 (as stated): every delay given to the backoff sleep is a non-negative
\* whole number of seconds, whatever the attempt and the Retry-After header.
C37_AsStated == \A i \in 1..Len(kg_sleeps) : kg_sleeps[i] \in Nat

\* C37 (amended): every delay given to the backoff sleep is a whole number of
\* seconds; it is negative exactly when the Retry-After header is a negative
\* integer, which is passed on as it is, and it is at least 1 when the
\* response has no Retry-After header.
C37_WholeSeconds ==
    \A i \in 1..Len(kg_sleeps) :
        /\ kg_sleeps[i] \in Int
        /\ kg_sleeps[i] < 0 <=> KgHeaderIsNegative(i)
        /\ kg_responses[i].retry_after = <<"-", "1">> => kg_sleeps[i] = 0 - 1
        /\ kg_responses[i].retry_after = None => kg_sleeps[i] >= 1

\* C37 witness: a 429 with Retry-After: -1 on an attempt that is retried.
C37_Witness ==
    /\ kg_sleeps # <<>>
    /\ kg_responses[1].retry_after = <<"-", "1">>
    /\ kg_sleeps[1] = 0 - 1
    /\ Len(kg_requests) = 2

=============================================================================
